---- MODULE Spec2Model ----
(***************************************************************************)
(* Claim-based work queue of the book pipeline.                            *)
(*                                                                         *)
(* The item store is the book_data table served by flask_api_receiver.py   *)
(* (PostgreSQL, READ COMMITTED, row locks taken by SELECT ... FOR UPDATE   *)
(* SKIP LOCKED and held until commit or rollback).  Download workers are   *)
(* download_file.py processes, upload workers are test_rclone_upload.py    *)
(* processes, ingestion is the CSV upload of the controllers.              *)
(*                                                                         *)
(* Spec is the whole system with the workers reduced to their requests;    *)
(* SizeSpec is claim_books on a table larger than the batch cap;           *)
(* IngestSpec is upload_data next to one worker; LoopSpec and LoopFairSpec *)
(* follow the control flow of download_file.main for one worker; LiveSpec  *)
(* adds the restart of the worker, a periodic reset and a running clock.   *)
(* IdSpec is the two claim handlers answering requests with any            *)
(* instance_id; UploadClaimSpec is claim_upload_batch called by two upload *)
(* workers; UploadLoopSpec follows test_rclone_upload.main and             *)
(* UploadLiveSpec adds the periodic reset and the clock to it; QuerySpec   *)
(* puts the query endpoints between the lease operations; FrameSpec is a   *)
(* reset for one worker next to the reports; ReportSpec is upload_data     *)
(* taking reports for ids it does not hold; NotifySpec is notify.py.       *)
(*                                                                         *)
(* Beside the book table: BotSpec and BotFairSpec are FreewareBot          *)
(* instances of main_bot.py on the MySQL table software_items; PmSpec is   *)
(* the ProcessManager of controller_api.py with its monitoring thread and  *)
(* one call of run_script_with_enhanced_retry; PipelineSpec is             *)
(* process_keyword_enhanced on top of it; BackoffSpec is                   *)
(* exponential_backoff; BookmarkSpec is POST /bookmark served by two       *)
(* threads.                                                                *)
(***************************************************************************)
EXTENDS Integers, FiniteSets, Sequences, TLC

\* ------------------------------------------------------------------------
\* Bounds of the model
\* ------------------------------------------------------------------------
NumItems == 2          \* ids that ingestion may create in the full model
NumSoftware == 2       \* rows of software_items (main_bot)
MaxBaseDelay == 20     \* largest base_delay given to exponential_backoff
MaxBackoffAttempt == 8 \* largest attempt given to exponential_backoff
MaxTime == 1           \* the clock stops advancing at this hour
SizeSlack == 2         \* pending rows beyond the batch cap in the size model
MaxAccounts == 1       \* accounts that load_accounts may return
MaxNotifyTime == 6     \* steps of 150 s that the clock of notify runs

\* ------------------------------------------------------------------------
\* Program constants
\* ------------------------------------------------------------------------
MAX_CLAIM_BATCH == 20  \* min(int(batch_size), 20) in claim_books
MAX_UPLOAD_BATCH == 20 \* min(int(batch_size), 20) in claim_upload_batch
CLAIM_RETRIES == 3     \* max_retries of claim_books in download_file.py
MAX_BOOK_RETRIES == 3  \* max_book_retries in download_file.main
MAX_DRIVER_RESTARTS == 3  \* max_driver_restarts in download_file.main
MAX_CONCURRENT_PROCESSES == 3  \* controller_api.py, default of the env var
MAX_RETRY_ATTEMPTS == 3  \* controller_api.py, default of the env var
RETRY_DELAY_BASE == 5  \* controller_api.py, default of the env var
MAX_BACKOFF == 300     \* the cap in exponential_backoff, in seconds
BATCH_INTERVAL == 2    \* min_interval=300 of send_telegram, in 150 s
FATAL_INTERVAL == 4    \* min_interval=600 of send_fatal_error, in 150 s
ACCOUNT_INTERVAL == 6  \* min_interval=900 of send_login_failed, in 150 s
NOTIFY_START == 6      \* time.time() at the first call, in 150 s: the
                       \* epoch is further back than any min_interval

\* steps of process_keyword_enhanced
STEPS == <<"scrape.py", "deduplicate.py", "download_coverc.py">>

Users == {"a", "b"}              \* user_id of POST /bookmark
Requests == {"r1", "r2"}         \* threads of the threaded Flask server
Bots == {"b1", "b2"}             \* the FreewareBot instances of main_bot
Workers == {"w1", "w2"}          \* INSTANCE_ID of the download workers
Uploaders == {"u1"}              \* INSTANCE_ID of the upload workers
LoopWorkers == {"w1"}            \* the worker of the one-worker models
Instances == Workers \cup Uploaders

SoftwareIds == 1..NumSoftware             \* ids of software_items
Items == 1..NumItems                      \* ids of the full model
SizeItems == 1..(MAX_CLAIM_BATCH + SizeSlack)  \* ids of the size model

NULL == "NULL"                   \* SQL NULL / Python None
NoField == "NoField"             \* key absent from a JSON payload
Statuses == {"pending", "in_progress", "done", "failed"}
BatchSizes == {1, 21}            \* batch_size values of the requests
SizeBatchSizes == {0, 1, 20, 21} \* batch_size values in the size model
MaxAges == {0, 1}                \* max_age_hours values of the requests
DriveUrl == "remote:ebook/file"  \* files_url_drive sent by the uploader

Min(a, b) == IF a < b THEN a ELSE b

\* All subsets of S with exactly k elements (LIMIT k without ORDER BY may
\* return any k of the candidate rows).
RECURSIVE KSubsets(_, _)
KSubsets(S, k) ==
    IF k = 0 THEN {{}}
    ELSE IF Cardinality(S) < k THEN {}
    ELSE LET x == CHOOSE y \in S : TRUE
         IN  {T \cup {x} : T \in KSubsets(S \ {x}, k - 1)}
             \cup KSubsets(S \ {x}, k)

VARIABLES
    book_data,   \* the table: id -> row (exists = FALSE: no such row)
    now,         \* datetime.utcnow(), in hours
    wpc,         \* download worker: position in download_file.main
    claimTx,     \* download worker: its open claim_books transaction
    held,        \* download worker: claimed books not yet processed
    upc,         \* upload worker: position in test_rclone_upload.main
    uploadTx,    \* upload worker: its open claim_upload_batch transaction
    uheld,       \* upload worker: claimed books not yet processed
    resetTx,     \* the open reset_inprogress request
    grants,      \* id -> times returned by claim_books since the last
                 \* committed reset, report or ingestion
    attempt,     \* download worker: failed tries of the running claim_books
    lpc,         \* download worker: position inside the batch it works on
    cur,         \* download worker: the book of the running for-iteration
    tries,       \* download worker: book_retry_count
    accounts,    \* download worker: len(accounts_list) - current_account_index
    restarts,    \* download worker: driver_restart_count
    unreported,  \* download worker: books of its last batch that it left
                 \* without a call of update_book_status
    reply,       \* the last response of a query endpoint
    notify,      \* notify.py in the worker process: its clock, _last_sent,
                 \* the POSTs it made and how its last call ended
    cache,       \* the entry 'stats' of the Flask cache
    software_items,  \* main_bot: the MySQL table, id -> row
    bot,         \* main_bot: each FreewareBot's position in
                 \* run_download_batch and the rows it still has to handle
    downloads,   \* main_bot: id -> the bots whose download_file call for it
                 \* has returned
    procs,       \* controller_api: the subprocesses, id -> how far each is
    processes,   \* controller_api: ProcessManager.processes, the ids tracked
    process_stats,  \* controller_api: the counters of process_stats
    ctl,         \* controller_api: the main thread inside
                 \* run_script_with_enhanced_retry
    pipeline,    \* controller_api: the main thread inside
                 \* process_keyword_enhanced, and the keyword's status
    backoff,     \* controller_api: a retry loop's base_delay, its attempt
                 \* and the delays exponential_backoff gave it
    bookmark_db, \* flask_api_receiver: bookmark_db.json, user -> book ids
    breq,        \* flask_api_receiver: the threads serving POST /bookmark
    bookmarked   \* flask_api_receiver: user -> the valid ids of the POST
                 \* /bookmark requests answered with status ok

\* The variables of the loop over a claimed batch in download_file.main.
loopVars == <<lpc, cur, tries, accounts, restarts, unreported>>

\* The variables of the components that share no state with the book table.
botVars == <<software_items, bot, downloads>>

pmVars == <<procs, processes, process_stats, ctl, pipeline>>

bookmarkVars == <<bookmark_db, breq, bookmarked>>

\* What neither main_bot nor the process manager touches.
restVars == <<backoff, bookmarkVars>>

sideVars == <<botVars, pmVars, restVars>>

\* The book table of flask_api_receiver and everything built on it.
tableVars == <<book_data, now, wpc, claimTx, held, upc, uploadTx, uheld,
               resetTx, grants, attempt, loopVars, reply, notify, cache>>

vars == <<book_data, now, wpc, claimTx, held, upc, uploadTx, uheld,
          resetTx, grants, attempt, loopVars, reply, notify, cache, sideVars>>

\* ------------------------------------------------------------------------
\* The table
\* ------------------------------------------------------------------------
NoRow == [exists |-> FALSE, download_status |-> NULL, claimed_by |-> NULL,
          files_url_drive |-> NULL, updated_at |-> 0]

\* BookData(**item): column defaults of a new row.
NewRow(t) == [exists |-> TRUE, download_status |-> "pending",
              claimed_by |-> NULL, files_url_drive |-> NULL,
              updated_at |-> t]

NoTime == -1                     \* no POST was made yet

\* notify.py after its import: _last_sent = {}, read with a default of 0.
NotifyAtStart(c) ==
    [clock |-> NOTIFY_START, configured |-> c,
     last_sent |-> [tag \in {"batch_download", "fatal_error",
                             "login_failed_a", "limit_a"} |-> 0],
     attempts |-> [tag \in {"batch_download", "fatal_error",
                            "login_failed_a", "limit_a"} |->
                      <<NoTime, NoTime>>],
     result |-> "none", delivery |-> "none"]

\* cache.get('stats') finds nothing: the cache starts empty.
NoCache == [present |-> FALSE, data |-> [total |-> 0]]

\* software_items as save_software_item leaves a scraped item: pending,
\* no file, no links.
ScrapedItem(active) ==
    [download_status |-> "pending", file_path |-> NULL, cloud_links |-> NULL,
     is_active |-> active]

\* A FreewareBot between two scheduled jobs.
BotIdle == [pc |-> "idle", items |-> <<>>]

\* Every scraped item is active and no bot has started a batch.
BotStart ==
    /\ software_items = [i \in SoftwareIds |-> ScrapedItem(TRUE)]
    /\ bot = [b \in Bots |-> BotIdle]
    /\ downloads = [i \in SoftwareIds |-> {}]

\* The id of the process that attempt n (from 0) of a step's script starts.
ProcId(script, n) == (script - 1) * MAX_RETRY_ATTEMPTS + n + 1

ProcIds == 1..(Len(STEPS) * MAX_RETRY_ATTEMPTS)

\* process_stats as the module sets it up.
NoStats == [total_started |-> 0, total_completed |-> 0, total_failed |-> 0,
            current_running |-> 0]

\* The main thread outside run_script_with_enhanced_retry.
CtlIdle == [pc |-> "idle", script |-> 0, attempt |-> 0, result |-> FALSE]

\* The main thread outside process_keyword_enhanced, the keyword not done.
PipelineIdle == [pc |-> "idle", succeeded |-> {}, uploaded |-> FALSE,
                 done |-> FALSE, result |-> FALSE]

\* ProcessManager() with no process started.
ManagerStart ==
    /\ procs = [p \in ProcIds |-> "none"]
    /\ processes = {}
    /\ process_stats = NoStats

PmStart == ManagerStart /\ ctl = CtlIdle /\ pipeline = PipelineIdle

\* A retry loop that has not asked for a delay yet.
NoBackoff == [base_delay |-> RETRY_DELAY_BASE, attempt |-> 0, delay |-> 0,
              last |-> 0]

\* A thread that serves no POST /bookmark.
NoRequest == [pc |-> "idle", user_id |-> NULL, book_ids |-> {},
              bookmarks |-> [u \in Users |-> {}]]

\* bookmark_db.json does not exist: load_bookmarks returns {}.
BookmarkStart ==
    /\ bookmark_db = [u \in Users |-> {}]
    /\ breq = [r \in Requests |-> NoRequest]
    /\ bookmarked = [u \in Users |-> {}]

RestStart == backoff = NoBackoff /\ BookmarkStart

\* The components that share no state with the book table, as constructed.
SideStart == BotStart /\ PmStart /\ RestStart

\* No query endpoint has answered yet.
NoReply == [endpoint |-> NULL, data |-> [status |-> 0]]

NoTx == [open |-> FALSE, batch_size |-> 0, books |-> {}]
NoReset == [open |-> FALSE, books |-> {}]

\* Rows locked FOR UPDATE by an open claim transaction.
LockedRows ==
    UNION ({claimTx[w].books : w \in DOMAIN claimTx}
           \cup {uploadTx[u].books : u \in DOMAIN uploadTx})

IsEmpty(v) == v = NULL \/ v = ""

Ids == DOMAIN book_data          \* the ids the table can hold

ZeroGrants == [i \in Ids |-> 0]

\* download_file.main before its first claim: the driver is set up and
\* load_accounts() has returned n accounts.
WorkerStart(n) ==
    /\ attempt = [w \in Workers |-> 0]
    /\ lpc = [w \in Workers |-> "batch"]
    /\ cur = [w \in Workers |-> 0]
    /\ tries = [w \in Workers |-> 0]
    /\ accounts = [w \in Workers |-> n]
    /\ restarts = [w \in Workers |-> 0]
    /\ unreported = [w \in Workers |-> {}]

TableStart ==
    /\ book_data = [i \in Items |-> NoRow]
    /\ now = 0
    /\ wpc = [w \in Workers |-> "idle"]
    /\ claimTx = [w \in Workers |-> NoTx]
    /\ held = [w \in Workers |-> {}]
    /\ upc = [u \in Uploaders |-> "idle"]
    /\ uploadTx = [u \in Uploaders |-> NoTx]
    /\ uheld = [u \in Uploaders |-> {}]
    /\ resetTx = NoReset
    /\ grants = [i \in Items |-> 0]
    /\ WorkerStart(MaxAccounts)
    /\ reply = NoReply
    /\ notify = NotifyAtStart(TRUE)
    /\ cache = NoCache

Init == TableStart /\ SideStart

\* ------------------------------------------------------------------------
\* upload_data: insert or update one item (used for ingestion and reports)
\* ------------------------------------------------------------------------
\* A JSON payload; a key that is not sent is NoField.
Payload(i, s, f, p) ==
    [id |-> i, download_status |-> s, files_url_drive |-> f,
     claimed_by |-> NoField, download_path |-> p]

\* update_book_status(book_id, status, download_path)
ReportPayload(i, o) ==
    Payload(i, o, NoField, IF o = "done" THEN "path" ELSE NoField)

\* update_upload_status(book_id, files_url_drive, share, direct)
UploadPayload(i) == Payload(i, NoField, DriveUrl, NoField)

\* a CSV row: id, metadata and possibly the download_status column
IngestStatuses == {NoField, "done"}
IngestPayload(i, s) == Payload(i, s, NoField, NoField)

\* for k, v in data.items(): if hasattr(book, k) and k != 'id': setattr
UpdateRow(row, data, t) ==
    [exists |-> TRUE,
     download_status |-> IF data.download_status = NoField
                         THEN row.download_status ELSE data.download_status,
     claimed_by |-> IF data.claimed_by = NoField
                    THEN row.claimed_by ELSE data.claimed_by,
     files_url_drive |-> IF data.files_url_drive = NoField
                         THEN row.files_url_drive ELSE data.files_url_drive,
     updated_at |-> t]

\* BookData(**data): sent columns override the column defaults
InsertRow(data, t) == UpdateRow(NewRow(t), data, t)

\* Mutant of UploadData: an existing row is replaced by a new one.
UploadDataReplace(store, data, t) ==
    IF data.download_path # NoField
    THEN store
    ELSE [store EXCEPT ![data.id] = InsertRow(data, t)]

\* The single-item branch of upload_data.  A key that is not a column
\* (download_path) is skipped on update and makes the constructor raise on
\* insert, which rolls the request back.
UploadData(store, data, t) ==
    IF store[data.id].exists
    THEN [store EXCEPT ![data.id] = UpdateRow(store[data.id], data, t)]
    ELSE IF data.download_path # NoField
         THEN store
         ELSE [store EXCEPT ![data.id] = InsertRow(data, t)]

\* The status upload_data reports for one item.
UploadStatus(store, data) ==
    IF store[data.id].exists THEN "updated"
    ELSE IF data.download_path # NoField THEN "error"
    ELSE "inserted"

\* cache.delete('stats') follows the commit of the single-item branch; the
\* request that raises is rolled back and leaves the cache as it is.
CacheAfterUpload(store, data) ==
    IF UploadStatus(store, data) = "error" THEN cache ELSE NoCache

\* The batch branch of upload_data: the items are handled in order inside
\* one transaction (the lookup of an id flushes the rows added before it),
\* an item whose constructor raises is skipped, and one commit ends it.
RECURSIVE UploadBatch(_, _, _)
UploadBatch(store, items, t) ==
    IF items = <<>> THEN store
    ELSE UploadBatch(UploadData(store, Head(items), t), Tail(items), t)

\* The results list of the batch branch.
RECURSIVE BatchResults(_, _, _)
BatchResults(store, items, t) ==
    IF items = <<>> THEN <<>>
    ELSE <<UploadStatus(store, Head(items))>>
         \o BatchResults(UploadData(store, Head(items), t), Tail(items), t)

\* ------------------------------------------------------------------------
\* claim_books
\* ------------------------------------------------------------------------
\* Mutant of ClaimLimit: the requested batch size is not clamped.
ClaimLimitUnclamped(bs) == bs

\* batch_size = min(int(req_json.get('batch_size', 5)), 20)
ClaimLimit(bs) == Min(bs, MAX_CLAIM_BATCH)

\* Mutant of ClaimCandidates: the SELECT does not skip locked rows.
ClaimCandidatesNoSkip ==
    {i \in Ids : /\ book_data[i].exists
                 /\ book_data[i].download_status = "pending"}

\* filter_by(download_status='pending').with_for_update(skip_locked=True)
ClaimCandidates ==
    {i \in Ids : /\ book_data[i].exists
                 /\ book_data[i].download_status = "pending"
                 /\ i \notin LockedRows}

\* Mutant of ClaimRow: the lease is taken without recording its owner.
ClaimRowNoOwner(row, w, t) ==
    [row EXCEPT !.download_status = "in_progress", !.updated_at = t]

\* book.download_status = 'in_progress'; book.claimed_by = instance_id
ClaimRow(row, w, t) ==
    [row EXCEPT !.download_status = "in_progress", !.claimed_by = w,
                !.updated_at = t]

\* Mutant of ClaimWrites: only one row of the batch is written.
ClaimWritesOne(store, books, w, t) ==
    [i \in DOMAIN store |->
        IF books # {} /\ i = (CHOOSE j \in books : TRUE)
        THEN ClaimRow(store[i], w, t)
        ELSE store[i]]

\* The table after the loop over the selected rows and the commit.
ClaimWrites(store, books, w, t) ==
    [i \in DOMAIN store |->
        IF i \in books THEN ClaimRow(store[i], w, t) ELSE store[i]]

\* The SELECT ... FOR UPDATE SKIP LOCKED LIMIT batch_size of claim_books:
\* the selected rows stay locked until the transaction ends.
ClaimSelect(w, bs) ==
    /\ wpc[w] = "idle"
    /\ LET k == Min(ClaimLimit(bs), Cardinality(ClaimCandidates))
       IN  \E S \in KSubsets(ClaimCandidates, k) :
             claimTx' = [claimTx EXCEPT ![w] =
                           [open |-> TRUE, batch_size |-> bs, books |-> S]]
    /\ wpc' = [wpc EXCEPT ![w] = "claiming"]
    /\ unreported' = [unreported EXCEPT ![w] = {}]
    /\ UNCHANGED <<book_data, now, held, upc, uploadTx, uheld, resetTx,
                   grants>>
    /\ UNCHANGED <<attempt, lpc, cur, tries, accounts, restarts>>
    /\ UNCHANGED <<reply, notify, cache>>
    /\ UNCHANGED sideVars

\* The updates and the commit of claim_books; the response is the batch.
ClaimCommit(w) ==
    /\ wpc[w] = "claiming"
    /\ book_data' = ClaimWrites(book_data, claimTx[w].books, w, now)
    /\ held' = [held EXCEPT ![w] = claimTx[w].books]
    /\ grants' = [i \in Ids |->
                    IF i \in claimTx[w].books THEN grants[i] + 1
                    ELSE grants[i]]
    /\ claimTx' = [claimTx EXCEPT ![w] = NoTx]
    /\ wpc' = [wpc EXCEPT ![w] =
                 IF claimTx[w].books = {} THEN "drained" ELSE "working"]
    /\ attempt' = [attempt EXCEPT ![w] = 0]
    /\ UNCHANGED <<now, upc, uploadTx, uheld, resetTx>>
    /\ UNCHANGED loopVars
    /\ UNCHANGED <<reply, notify, cache>>
    /\ UNCHANGED sideVars

\* An exception inside claim_books: rollback, HTTP 500.  The client retries
\* and, when its retries are used up, returns [] to main, which exits.
ClaimRollback(w) ==
    /\ wpc[w] = "claiming"
    /\ claimTx' = [claimTx EXCEPT ![w] = NoTx]
    /\ \E next \in {"idle", "drained"} : wpc' = [wpc EXCEPT ![w] = next]
    /\ UNCHANGED <<book_data, now, held, upc, uploadTx, uheld, resetTx,
                   grants>>
    /\ UNCHANGED <<attempt, loopVars>>
    /\ UNCHANGED <<reply, notify, cache>>
    /\ UNCHANGED sideVars

\* controller_download restarts download_file.py when the process is dead.
Restart(w) ==
    /\ wpc[w] = "drained"
    /\ wpc' = [wpc EXCEPT ![w] = "idle"]
    /\ restarts' = [restarts EXCEPT ![w] = 0]
    /\ UNCHANGED <<book_data, now, claimTx, held, upc, uploadTx, uheld,
                   resetTx, grants>>
    /\ UNCHANGED <<attempt, lpc, cur, tries, accounts, unreported>>
    /\ UNCHANGED <<reply, notify, cache>>
    /\ UNCHANGED sideVars

\* ------------------------------------------------------------------------
\* The download worker's reports
\* ------------------------------------------------------------------------
Outcomes == {"done", "failed"}

AfterItem(w, i) == IF held[w] \ {i} = {} THEN "idle" ELSE "working"

\* update_book_status(book_id, outcome) posted to upload_data.  The UPDATE
\* waits while another transaction holds the row lock.
Report(w, i, o) ==
    /\ wpc[w] = "working"
    /\ i \in held[w]
    /\ i \notin LockedRows
    /\ book_data' = UploadData(book_data, ReportPayload(i, o), now)
    /\ held' = [held EXCEPT ![w] = held[w] \ {i}]
    /\ wpc' = [wpc EXCEPT ![w] = AfterItem(w, i)]
    /\ grants' = ZeroGrants
    /\ UNCHANGED <<now, claimTx, upc, uploadTx, uheld, resetTx>>
    /\ UNCHANGED <<attempt, loopVars>>
    /\ cache' = CacheAfterUpload(book_data, ReportPayload(i, o))
    /\ UNCHANGED <<reply, notify>>
    /\ UNCHANGED sideVars

\* The worker leaves a book of its batch without a report: the retry loop
\* runs out through its continue branches, every POST of update_book_status
\* fails, or the process is killed.
Abandon(w, i) ==
    /\ wpc[w] = "working"
    /\ i \in held[w]
    /\ held' = [held EXCEPT ![w] = held[w] \ {i}]
    /\ wpc' = [wpc EXCEPT ![w] = AfterItem(w, i)]
    /\ UNCHANGED <<book_data, now, claimTx, upc, uploadTx, uheld, resetTx,
                   grants>>
    /\ UNCHANGED <<attempt, loopVars>>
    /\ UNCHANGED <<reply, notify, cache>>
    /\ UNCHANGED sideVars

\* ------------------------------------------------------------------------
\* Ingestion
\* ------------------------------------------------------------------------
\* One CSV row posted to upload_data by the controllers.
Ingest(i, s) ==
    /\ i \in Items
    /\ i \notin LockedRows
    /\ book_data' = UploadData(book_data, IngestPayload(i, s), now)
    /\ grants' = ZeroGrants
    /\ UNCHANGED <<now, wpc, claimTx, held, upc, uploadTx, uheld, resetTx>>
    /\ UNCHANGED <<attempt, loopVars>>
    /\ cache' = CacheAfterUpload(book_data, IngestPayload(i, s))
    /\ UNCHANGED <<reply, notify>>
    /\ UNCHANGED sideVars

\* The CSV batches sent by send_data_from_csv_enhanced.
IngestBatches ==
    {<<IngestPayload(i, s)>> : i \in Items, s \in IngestStatuses}
    \cup {<<IngestPayload(i, s), IngestPayload(j, r)>> :
             i \in Items, j \in Items,
             s \in IngestStatuses, r \in IngestStatuses}

BatchIds(items) == {items[k].id : k \in DOMAIN items}

\* One batch of CSV rows posted to upload_data.
IngestBatch(items) ==
    /\ BatchIds(items) \cap LockedRows = {}
    /\ book_data' = UploadBatch(book_data, items, now)
    /\ grants' = ZeroGrants
    /\ UNCHANGED <<now, wpc, claimTx, held, upc, uploadTx, uheld, resetTx>>
    /\ UNCHANGED <<attempt, loopVars>>
    /\ cache' = NoCache
    /\ UNCHANGED <<reply, notify>>
    /\ UNCHANGED sideVars

\* ------------------------------------------------------------------------
\* reset_inprogress
\* ------------------------------------------------------------------------
\* Mutant of ResetMatchesIn: the age filter is left out of the query.
ResetMatchesAnyAge(store, t, inst, reset_failed, max_age) ==
    {i \in DOMAIN store :
        /\ store[i].exists
        /\ (inst # NULL => store[i].claimed_by = inst)
        /\ IF reset_failed
           THEN store[i].download_status \in {"in_progress", "failed"}
           ELSE store[i].download_status = "in_progress"}

\* The rows the query of reset_inprogress loads from a table read at time t.
ResetMatchesIn(store, t, inst, reset_failed, max_age) ==
    {i \in DOMAIN store :
        /\ store[i].exists
        /\ (inst # NULL => store[i].claimed_by = inst)
        /\ store[i].updated_at < t - max_age
        /\ IF reset_failed
           THEN store[i].download_status \in {"in_progress", "failed"}
           ELSE store[i].download_status = "in_progress"}

ResetMatches(inst, reset_failed, max_age) ==
    ResetMatchesIn(book_data, now, inst, reset_failed, max_age)

\* Mutant of ResetRow: only the owner is cleared.
ResetRowKeepsStatus(row, t) == [row EXCEPT !.claimed_by = NULL]

\* book.download_status = 'pending'; book.claimed_by = None
ResetRow(row, t) ==
    [row EXCEPT !.download_status = "pending", !.claimed_by = NULL,
                !.updated_at = t]

\* Mutant of ResetStore: the changes are never flushed.
ResetStoreUnflushed(store, books, t) == store

\* The table after the loop over the loaded rows has been flushed.
ResetStore(store, books, t) ==
    [i \in DOMAIN store |->
        IF i \in books THEN ResetRow(store[i], t) ELSE store[i]]

\* count += 1 for every loaded row; returned as reset_count.
ResetCount(books) == Cardinality(books)

\* query.all(): a plain SELECT, no row lock.
ResetSelect(inst, reset_failed, max_age) ==
    /\ ~resetTx.open
    /\ resetTx' = [open |-> TRUE,
                   books |-> ResetMatches(inst, reset_failed, max_age)]
    /\ UNCHANGED <<book_data, now, wpc, claimTx, held, upc, uploadTx, uheld,
                   grants>>
    /\ UNCHANGED <<attempt, loopVars>>
    /\ UNCHANGED <<reply, notify, cache>>
    /\ UNCHANGED sideVars

\* The flush and commit: one UPDATE ... WHERE id = ? per loaded row.
ResetCommit ==
    /\ resetTx.open
    /\ resetTx.books \cap LockedRows = {}
    /\ book_data' = ResetStore(book_data, resetTx.books, now)
    /\ resetTx' = NoReset
    /\ grants' = ZeroGrants
    /\ UNCHANGED <<now, wpc, claimTx, held, upc, uploadTx, uheld>>
    /\ UNCHANGED <<attempt, loopVars>>
    /\ UNCHANGED <<reply, notify, cache>>
    /\ UNCHANGED sideVars

\* An exception before the commit returns: rollback, HTTP 500.
ResetRollback ==
    /\ resetTx.open
    /\ resetTx' = NoReset
    /\ UNCHANGED <<book_data, now, wpc, claimTx, held, upc, uploadTx, uheld,
                   grants>>
    /\ UNCHANGED <<attempt, loopVars>>
    /\ UNCHANGED <<reply, notify, cache>>
    /\ UNCHANGED sideVars

\* ------------------------------------------------------------------------
\* claim_upload_batch and the upload worker
\* ------------------------------------------------------------------------
\* Mutant of UploadEligible: the download-stage status is not tested.
UploadEligibleAnyStatus(row) ==
    /\ row.exists
    /\ IsEmpty(row.files_url_drive)
    /\ IsEmpty(row.claimed_by)

\* download_status == 'done', files_url_drive empty, claimed_by empty
UploadEligible(row) ==
    /\ row.exists
    /\ row.download_status = "done"
    /\ IsEmpty(row.files_url_drive)
    /\ IsEmpty(row.claimed_by)

\* batch_size = min(int(data.get('batch_size', 10)), 20)
UploadLimit(bs) == Min(bs, MAX_UPLOAD_BATCH)

\* Mutant of UploadCandidates: the SELECT does not skip locked rows.
UploadCandidatesNoSkip == {i \in Ids : UploadEligible(book_data[i])}

\* the filter of claim_upload_batch .with_for_update(skip_locked=True)
UploadCandidates ==
    {i \in Ids : UploadEligible(book_data[i]) /\ i \notin LockedRows}

\* Mutant of UploadClaimRow: the claim also moves the row out of done.
UploadClaimRowMarking(row, u, t) ==
    [row EXCEPT !.claimed_by = u, !.updated_at = t,
                !.download_status = "in_progress"]

\* book.claimed_by = instance_id; book.updated_at = datetime.utcnow()
UploadClaimRow(row, u, t) ==
    [row EXCEPT !.claimed_by = u, !.updated_at = t]

UploadSelect(u, bs) ==
    /\ upc[u] = "idle"
    /\ LET k == Min(UploadLimit(bs), Cardinality(UploadCandidates))
       IN  \E S \in KSubsets(UploadCandidates, k) :
             uploadTx' = [uploadTx EXCEPT ![u] =
                            [open |-> TRUE, batch_size |-> bs, books |-> S]]
    /\ upc' = [upc EXCEPT ![u] = "claiming"]
    /\ UNCHANGED <<book_data, now, wpc, claimTx, held, uheld, resetTx,
                   grants>>
    /\ UNCHANGED <<attempt, loopVars>>
    /\ UNCHANGED <<reply, notify, cache>>
    /\ UNCHANGED sideVars

\* An empty batch makes test_rclone_upload.main return at once.
UploadCommit(u) ==
    /\ upc[u] = "claiming"
    /\ book_data' = [i \in Ids |->
                       IF i \in uploadTx[u].books
                       THEN UploadClaimRow(book_data[i], u, now)
                       ELSE book_data[i]]
    /\ uheld' = [uheld EXCEPT ![u] = uploadTx[u].books]
    /\ uploadTx' = [uploadTx EXCEPT ![u] = NoTx]
    /\ upc' = [upc EXCEPT ![u] =
                 IF uploadTx[u].books = {} THEN "idle" ELSE "uploading"]
    /\ UNCHANGED <<now, wpc, claimTx, held, resetTx, grants>>
    /\ UNCHANGED <<attempt, loopVars>>
    /\ UNCHANGED <<reply, notify, cache>>
    /\ UNCHANGED sideVars

\* An exception inside claim_upload_batch: the client returns [].
UploadRollback(u) ==
    /\ upc[u] = "claiming"
    /\ uploadTx' = [uploadTx EXCEPT ![u] = NoTx]
    /\ upc' = [upc EXCEPT ![u] = "idle"]
    /\ UNCHANGED <<book_data, now, wpc, claimTx, held, uheld, resetTx,
                   grants>>
    /\ UNCHANGED <<attempt, loopVars>>
    /\ UNCHANGED <<reply, notify, cache>>
    /\ UNCHANGED sideVars

UAfterItem(u, i) == IF uheld[u] \ {i} = {} THEN "idle" ELSE "uploading"

\* update_upload_status posted to upload_data after a successful copy.
UploadReport(u, i) ==
    /\ upc[u] = "uploading"
    /\ i \in uheld[u]
    /\ i \notin LockedRows
    /\ book_data' = UploadData(book_data, UploadPayload(i), now)
    /\ uheld' = [uheld EXCEPT ![u] = uheld[u] \ {i}]
    /\ upc' = [upc EXCEPT ![u] = UAfterItem(u, i)]
    /\ UNCHANGED <<now, wpc, claimTx, held, uploadTx, resetTx, grants>>
    /\ UNCHANGED <<attempt, loopVars>>
    /\ cache' = CacheAfterUpload(book_data, UploadPayload(i))
    /\ UNCHANGED <<reply, notify>>
    /\ UNCHANGED sideVars

\* The local file is missing, the copy fails or main returns early.
UploadGiveUp(u, i) ==
    /\ upc[u] = "uploading"
    /\ i \in uheld[u]
    /\ uheld' = [uheld EXCEPT ![u] = uheld[u] \ {i}]
    /\ upc' = [upc EXCEPT ![u] = UAfterItem(u, i)]
    /\ UNCHANGED <<book_data, now, wpc, claimTx, held, uploadTx, resetTx,
                   grants>>
    /\ UNCHANGED <<attempt, loopVars>>
    /\ UNCHANGED <<reply, notify, cache>>
    /\ UNCHANGED sideVars

\* ------------------------------------------------------------------------
\* Time
\* ------------------------------------------------------------------------
Tick ==
    /\ now < MaxTime
    /\ now' = now + 1
    /\ UNCHANGED <<book_data, wpc, claimTx, held, upc, uploadTx, uheld,
                   resetTx, grants>>
    /\ UNCHANGED <<attempt, loopVars>>
    /\ UNCHANGED <<reply, notify, cache>>
    /\ UNCHANGED sideVars

ResetInstances == {NULL} \cup Instances

Next ==
    \/ \E i \in Items, s \in IngestStatuses : Ingest(i, s)
    \/ \E w \in Workers, bs \in BatchSizes : ClaimSelect(w, bs)
    \/ \E w \in Workers : ClaimCommit(w)
    \/ \E w \in Workers : ClaimRollback(w)
    \/ \E w \in Workers : Restart(w)
    \/ \E w \in Workers, i \in Ids, o \in Outcomes : Report(w, i, o)
    \/ \E w \in Workers, i \in Ids : Abandon(w, i)
    \/ \E inst \in ResetInstances, rf \in BOOLEAN, age \in MaxAges :
          ResetSelect(inst, rf, age)
    \/ ResetCommit
    \/ ResetRollback
    \/ \E u \in Uploaders, bs \in BatchSizes : UploadSelect(u, bs)
    \/ \E u \in Uploaders : UploadCommit(u)
    \/ \E u \in Uploaders : UploadRollback(u)
    \/ \E u \in Uploaders, i \in Ids : UploadReport(u, i)
    \/ \E u \in Uploaders, i \in Ids : UploadGiveUp(u, i)
    \/ Tick

Spec == Init /\ [][Next]_vars

\* ------------------------------------------------------------------------
\* The size model: a populated table and the claim_books requests only
\* ------------------------------------------------------------------------
\* The first n rows are pending, the others are already done.
SizeTable(n) ==
    [i \in SizeItems |->
        IF i <= n THEN NewRow(0)
        ELSE [NewRow(0) EXCEPT !.download_status = "done"]]

SizeInit ==
    /\ \E n \in 0..Cardinality(SizeItems) : book_data = SizeTable(n)
    /\ now = 0
    /\ wpc = [w \in Workers |-> "idle"]
    /\ claimTx = [w \in Workers |-> NoTx]
    /\ held = [w \in Workers |-> {}]
    /\ upc = [u \in Uploaders |-> "idle"]
    /\ uploadTx = [u \in Uploaders |-> NoTx]
    /\ uheld = [u \in Uploaders |-> {}]
    /\ resetTx = NoReset
    /\ grants = [i \in SizeItems |-> 0]
    /\ WorkerStart(MaxAccounts)
    /\ reply = NoReply
    /\ notify = NotifyAtStart(TRUE)
    /\ cache = NoCache
    /\ SideStart

SizeNext ==
    \/ \E w \in Workers, bs \in SizeBatchSizes : ClaimSelect(w, bs)
    \/ \E w \in Workers : ClaimCommit(w)
    \/ \E w \in Workers : ClaimRollback(w)
    \/ \E w \in Workers : Restart(w)

SizeSpec == SizeInit /\ [][SizeNext]_vars

\* ------------------------------------------------------------------------
\* The ingestion model: CSV uploads next to the claims and reports of one
\* worker, at one clock reading
\* ------------------------------------------------------------------------
IngestNext ==
    \/ \E i \in Items, s \in IngestStatuses : Ingest(i, s)
    \/ \E items \in IngestBatches : IngestBatch(items)
    \/ \E w \in LoopWorkers, bs \in BatchSizes : ClaimSelect(w, bs)
    \/ \E w \in LoopWorkers : ClaimCommit(w)
    \/ \E w \in LoopWorkers, i \in Ids, o \in Outcomes : Report(w, i, o)

IngestSpec == Init /\ [][IngestNext]_vars

\* ------------------------------------------------------------------------
\* The loop model: download_file.main followed step by step
\* ------------------------------------------------------------------------
StoreVars == <<book_data, now, claimTx, upc, uploadTx, uheld, resetTx,
               grants>>

\* Mutant of AfterClaimFailure: the client never gives up.
AfterClaimFailureRetry(w) ==
    /\ attempt' = attempt
    /\ wpc' = [wpc EXCEPT ![w] = "idle"]

\* for attempt in range(max_retries) in the client's claim_books: after a
\* failed try it tries again while tries are left, else it returns [] and
\* main leaves its loop.
AfterClaimFailure(w) ==
    IF attempt[w] + 1 < CLAIM_RETRIES
    THEN /\ attempt' = [attempt EXCEPT ![w] = attempt[w] + 1]
         /\ wpc' = [wpc EXCEPT ![w] = "idle"]
    ELSE /\ attempt' = [attempt EXCEPT ![w] = 0]
         /\ wpc' = [wpc EXCEPT ![w] = "drained"]

\* An exception inside claim_books: rollback, HTTP 500, seen by the client.
LoopClaimRollback(w) ==
    /\ wpc[w] = "claiming"
    /\ claimTx' = [claimTx EXCEPT ![w] = NoTx]
    /\ AfterClaimFailure(w)
    /\ UNCHANGED <<book_data, now, held, upc, uploadTx, uheld, resetTx,
                   grants>>
    /\ UNCHANGED loopVars
    /\ UNCHANGED <<reply, notify, cache>>
    /\ UNCHANGED sideVars

\* The request does not reach claim_books, or a proxy answers 502, 503 or
\* 504: no transaction is opened.
ClaimUnreachable(w) ==
    /\ wpc[w] = "idle"
    /\ AfterClaimFailure(w)
    /\ UNCHANGED <<StoreVars, held, loopVars>>
    /\ UNCHANGED <<reply, notify, cache>>
    /\ UNCHANGED sideVars

\* Any other HTTP error (429 of the rate limit): the client returns [] at
\* once.
ClaimRefused(w) ==
    /\ wpc[w] = "idle"
    /\ attempt' = [attempt EXCEPT ![w] = 0]
    /\ wpc' = [wpc EXCEPT ![w] = "drained"]
    /\ UNCHANGED <<StoreVars, held, loopVars>>
    /\ UNCHANGED <<reply, notify, cache>>
    /\ UNCHANGED sideVars

\* The exception handler of the main loop: sleep, then claim again.  The
\* books in B are left behind.
LeaveBatch(w, B) ==
    /\ unreported' = [unreported EXCEPT ![w] = unreported[w] \cup B]
    /\ held' = [held EXCEPT ![w] = {}]
    /\ cur' = [cur EXCEPT ![w] = 0]
    /\ tries' = [tries EXCEPT ![w] = 0]
    /\ lpc' = [lpc EXCEPT ![w] = "batch"]
    /\ wpc' = [wpc EXCEPT ![w] = "idle"]

\* The account check in front of the for loop: with no account left the
\* list is loaded again, and with none loaded main sleeps and claims again.
BatchStart(w) ==
    /\ wpc[w] = "working"
    /\ lpc[w] = "batch"
    /\ \E n \in (IF accounts[w] = 0 THEN 0..MaxAccounts ELSE {accounts[w]}) :
          /\ accounts' = [accounts EXCEPT ![w] = n]
          /\ IF n = 0
             THEN LeaveBatch(w, held[w])
             ELSE /\ lpc' = [lpc EXCEPT ![w] = "book"]
                  /\ UNCHANGED <<unreported, held, cur, tries, wpc>>
    /\ UNCHANGED <<StoreVars, attempt, restarts>>
    /\ UNCHANGED <<reply, notify, cache>>
    /\ UNCHANGED sideVars

\* for book in books: the next book, or back to claim_books after the last.
NextBook(w) ==
    /\ wpc[w] = "working"
    /\ lpc[w] = "book"
    /\ IF held[w] = {}
       THEN /\ wpc' = [wpc EXCEPT ![w] = "idle"]
            /\ lpc' = [lpc EXCEPT ![w] = "batch"]
            /\ UNCHANGED <<held, cur>>
       ELSE /\ \E i \in held[w] :
                  /\ cur' = [cur EXCEPT ![w] = i]
                  /\ held' = [held EXCEPT ![w] = held[w] \ {i}]
            /\ lpc' = [lpc EXCEPT ![w] = "attempt"]
            /\ UNCHANGED wpc
    /\ tries' = [tries EXCEPT ![w] = 0]
    /\ UNCHANGED <<StoreVars, attempt, accounts, restarts, unreported>>
    /\ UNCHANGED <<reply, notify, cache>>
    /\ UNCHANGED sideVars

\* Accounts left when an iteration uses one: the list is loaded again
\* first when none is left.
AccountsAtUse(w) == IF accounts[w] = 0 THEN 1..MaxAccounts ELSE {accounts[w]}

\* Mutant of LastTry: every try is taken for the last one.
LastTryAlways(w) == TRUE

\* book_retry_count >= max_book_retries, after book_retry_count += 1
LastTry(w) == tries[w] + 1 >= MAX_BOOK_RETRIES

\* The while loop ends for the running book.
EndBook(w, reported) ==
    /\ lpc' = [lpc EXCEPT ![w] = "book"]
    /\ cur' = [cur EXCEPT ![w] = 0]
    /\ tries' = [tries EXCEPT ![w] = 0]
    /\ unreported' = IF reported THEN unreported
                     ELSE [unreported EXCEPT ![w] = unreported[w] \cup {cur[w]}]

\* An iteration ends with no report: the while condition lets the next
\* one run only while book_retry_count < max_book_retries.
NoReport(w) ==
    IF LastTry(w)
    THEN EndBook(w, FALSE)
    ELSE /\ tries' = [tries EXCEPT ![w] = tries[w] + 1]
         /\ UNCHANGED <<lpc, cur, unreported>>

\* update_book_status(book_id, o): posted to upload_data; when all its
\* tries fail it returns False and nothing is stored.
PostReport(w, o, delivered) ==
    /\ delivered => cur[w] \notin LockedRows
    /\ book_data' = IF delivered
                    THEN UploadData(book_data, ReportPayload(cur[w], o), now)
                    ELSE book_data
    /\ grants' = IF delivered THEN ZeroGrants ELSE grants
    /\ cache' = IF delivered
                THEN CacheAfterUpload(book_data, ReportPayload(cur[w], o))
                ELSE cache
    /\ EndBook(w, TRUE)
    /\ UNCHANGED <<now, wpc, claimTx, held, upc, uploadTx, uheld, resetTx,
                   attempt>>

AtAttempt(w) == wpc[w] = "working" /\ lpc[w] = "attempt"

\* No account after loading the list again: failed is reported at once.
AttemptNoAccount(w, delivered) ==
    /\ AtAttempt(w)
    /\ accounts[w] = 0
    /\ PostReport(w, "failed", delivered)
    /\ UNCHANGED <<accounts, restarts>>
    /\ UNCHANGED <<reply, notify>>
    /\ UNCHANGED sideVars

\* The account is in cooldown, the login fails, no download button is
\* found or the limit page shows: next account, next iteration.
AttemptSkipAccount(w) ==
    /\ AtAttempt(w)
    /\ \E n \in AccountsAtUse(w) :
          accounts' = [accounts EXCEPT ![w] = n - 1]
    /\ NoReport(w)
    /\ UNCHANGED <<StoreVars, wpc, held, attempt, restarts>>
    /\ UNCHANGED <<reply, notify, cache>>
    /\ UNCHANGED sideVars

\* The page does not load, the download times out, a TimeoutException or
\* another exception is raised: failed is reported on the last try, else
\* the next iteration follows (with the next account after a
\* TimeoutException).
AttemptSoftFail(w, delivered) ==
    /\ AtAttempt(w)
    /\ \E n \in AccountsAtUse(w) :
          IF LastTry(w)
          THEN /\ accounts' = [accounts EXCEPT ![w] = n]
               /\ PostReport(w, "failed", delivered)
          ELSE /\ \E m \in {n, n - 1} :
                     accounts' = [accounts EXCEPT ![w] = m]
               /\ tries' = [tries EXCEPT ![w] = tries[w] + 1]
               /\ UNCHANGED <<StoreVars, wpc, held, attempt, lpc, cur,
                              unreported, cache>>
    /\ UNCHANGED restarts
    /\ UNCHANGED <<reply, notify>>
    /\ UNCHANGED sideVars

\* The file arrives: done is reported.
AttemptSuccess(w, delivered) ==
    /\ AtAttempt(w)
    /\ \E n \in AccountsAtUse(w) : accounts' = [accounts EXCEPT ![w] = n]
    /\ PostReport(w, "done", delivered)
    /\ UNCHANGED restarts
    /\ UNCHANGED <<reply, notify>>
    /\ UNCHANGED sideVars

\* A WebDriverException: the driver is restarted while restarts are left,
\* else the exception is raised again and ends the batch.
AttemptWebDriver(w) ==
    /\ AtAttempt(w)
    /\ \E n \in AccountsAtUse(w) : accounts' = [accounts EXCEPT ![w] = n]
    /\ restarts' = [restarts EXCEPT ![w] =
                      Min(restarts[w] + 1, MAX_DRIVER_RESTARTS + 1)]
    /\ IF restarts[w] + 1 <= MAX_DRIVER_RESTARTS
       THEN NoReport(w) /\ UNCHANGED <<wpc, held>>
       ELSE LeaveBatch(w, {cur[w]} \cup held[w])
    /\ UNCHANGED <<StoreVars, attempt>>
    /\ UNCHANGED <<reply, notify, cache>>
    /\ UNCHANGED sideVars

\* An exception outside the inner try (driver.page_source, setup_driver of
\* a restart): it ends the batch.
AttemptEscape(w) ==
    /\ AtAttempt(w)
    /\ \E n \in AccountsAtUse(w) : accounts' = [accounts EXCEPT ![w] = n]
    /\ LeaveBatch(w, {cur[w]} \cup held[w])
    /\ UNCHANGED <<StoreVars, attempt, restarts>>
    /\ UNCHANGED <<reply, notify, cache>>
    /\ UNCHANGED sideVars

\* A backlog of n pending rows and a worker that has loaded a accounts.
LoopInit ==
    /\ \E n \in 0..NumItems :
          book_data = [i \in Items |-> IF i <= n THEN NewRow(0) ELSE NoRow]
    /\ now = 0
    /\ wpc = [w \in Workers |-> "idle"]
    /\ claimTx = [w \in Workers |-> NoTx]
    /\ held = [w \in Workers |-> {}]
    /\ upc = [u \in Uploaders |-> "idle"]
    /\ uploadTx = [u \in Uploaders |-> NoTx]
    /\ uheld = [u \in Uploaders |-> {}]
    /\ resetTx = NoReset
    /\ grants = [i \in Items |-> 0]
    /\ \E a \in 0..MaxAccounts : WorkerStart(a)
    /\ reply = NoReply
    /\ notify = NotifyAtStart(TRUE)
    /\ cache = NoCache
    /\ SideStart

\* One step of the worker w.
LoopStep(w) ==
    \/ \E bs \in BatchSizes : ClaimSelect(w, bs)
    \/ ClaimCommit(w)
    \/ BatchStart(w)
    \/ NextBook(w)
    \/ \E d \in BOOLEAN : AttemptNoAccount(w, d)
    \/ AttemptSkipAccount(w)
    \/ \E d \in BOOLEAN : AttemptSoftFail(w, d)
    \/ \E d \in BOOLEAN : AttemptSuccess(w, d)
    \/ AttemptWebDriver(w)
    \/ AttemptEscape(w)

LoopNext ==
    \/ \E w \in LoopWorkers : LoopStep(w)
    \/ \E w \in LoopWorkers : LoopClaimRollback(w)
    \/ \E w \in LoopWorkers : ClaimUnreachable(w)
    \/ \E w \in LoopWorkers : ClaimRefused(w)

LoopSpec == LoopInit /\ [][LoopNext]_vars

\* The worker process keeps running.
LoopFairSpec == LoopSpec /\ WF_vars(LoopNext)

\* ------------------------------------------------------------------------
\* The liveness model: the loop, a periodic reset and a clock that goes on
\* ------------------------------------------------------------------------
\* The hour passes.  Once the clock reads MaxTime the timestamps are moved
\* back instead: reset_inprogress compares updated_at with the clock only,
\* and with max_age_hours = 0 a timestamp that is older than the clock by
\* more than MaxTime compares as one that is older by MaxTime.
LiveTick ==
    /\ IF now < MaxTime
       THEN /\ now' = now + 1
            /\ UNCHANGED book_data
       ELSE /\ now' = now
            /\ book_data' =
                  [i \in Ids |->
                     [book_data[i] EXCEPT
                        !.updated_at = IF @ > 0 THEN @ - 1 ELSE 0]]
    /\ UNCHANGED <<wpc, claimTx, held, upc, uploadTx, uheld, resetTx,
                   grants>>
    /\ UNCHANGED <<attempt, loopVars>>
    /\ UNCHANGED <<reply, notify, cache>>
    /\ UNCHANGED sideVars

\* One step of the worker w while the store answers every request.
LiveStep(w) ==
    \/ \E bs \in BatchSizes : ClaimSelect(w, bs)
    \/ ClaimCommit(w)
    \/ BatchStart(w)
    \/ NextBook(w)
    \/ AttemptNoAccount(w, TRUE)
    \/ AttemptSkipAccount(w)
    \/ AttemptSoftFail(w, TRUE)
    \/ AttemptSuccess(w, TRUE)
    \/ AttemptWebDriver(w)
    \/ AttemptEscape(w)

\* The periodic reset: every instance, in_progress only, max_age_hours 0.
LiveReset == ResetSelect(NULL, FALSE, 0)

LiveNext ==
    \/ \E w \in LoopWorkers : LiveStep(w)
    \/ \E w \in LoopWorkers : Restart(w)
    \/ LiveReset
    \/ ResetCommit
    \/ LiveTick

\* The worker keeps running and is restarted when it has exited, the reset
\* is called again and again and runs to its commit, and time passes.
LiveSpec ==
    /\ LoopInit
    /\ [][LiveNext]_vars
    /\ \A w \in LoopWorkers : WF_vars(LiveStep(w)) /\ WF_vars(Restart(w))
    /\ WF_vars(LiveReset)
    /\ WF_vars(ResetCommit)
    /\ WF_vars(LiveTick)

\* ------------------------------------------------------------------------
\* The validation model: claim_books and claim_upload_batch as they answer
\* requests with any instance_id, one request at a time
\* ------------------------------------------------------------------------
MAX_INSTANCE_ID == 64  \* len(instance_id) > 64 is refused

FullId == "iiiiiiiiiiiiiiiiiiiiiiiiiiiiiiiiiiiiiiiiiiiiiiiiiiiiiiiiiiiiiiii"
LongId == "iiiiiiiiiiiiiiiiiiiiiiiiiiiiiiiiiiiiiiiiiiiiiiiiiiiiiiiiiiiiiiiii"

\* instance_id values of the requests: not sent, null, empty, a usual one,
\* one of 64 and one of 65 characters.
InstanceIds == {NoField, NULL, "", "w1", FullId, LongId}

\* req_json.get('instance_id', 'instance')
ClaimInstance(inst) == IF inst = NoField THEN "instance" ELSE inst

\* data.get('instance_id', 'uploader')
UploadInstance(inst) == IF inst = NoField THEN "uploader" ELSE inst

\* Mutant of ValidInstance: the length is not tested.
ValidInstanceAnyLength(inst) == ~IsEmpty(inst)

\* not (not instance_id or len(instance_id) > 64)
ValidInstance(inst) == ~IsEmpty(inst) /\ Len(inst) <= MAX_INSTANCE_ID

\* The HTTP status of claim_books for a request that raises nothing.
ClaimStatusCode(inst) ==
    IF ValidInstance(ClaimInstance(inst)) THEN 200 ELSE 400

\* The HTTP status of claim_upload_batch for a request that raises nothing.
UploadStatusCode(inst) ==
    IF ValidInstance(UploadInstance(inst)) THEN 200 ELSE 400

\* claim_books from the request to the response, and what the client makes
\* of it: a 400 makes it return [] at once, and main leaves its loop.
ClaimBooksRequest(w, inst, bs) ==
    /\ wpc[w] = "idle"
    /\ IF ClaimStatusCode(inst) = 400
       THEN /\ wpc' = [wpc EXCEPT ![w] = "drained"]
            /\ UNCHANGED <<book_data, held, grants>>
       ELSE LET k == Min(ClaimLimit(bs), Cardinality(ClaimCandidates))
            IN  \E S \in KSubsets(ClaimCandidates, k) :
                  /\ book_data' = ClaimWrites(book_data, S,
                                              ClaimInstance(inst), now)
                  /\ held' = [held EXCEPT ![w] = S]
                  /\ grants' = [i \in Ids |->
                                  IF i \in S THEN grants[i] + 1
                                  ELSE grants[i]]
                  /\ wpc' = [wpc EXCEPT ![w] =
                               IF S = {} THEN "drained" ELSE "working"]
    /\ unreported' = [unreported EXCEPT ![w] = {}]
    /\ UNCHANGED <<now, claimTx, upc, uploadTx, uheld, resetTx>>
    /\ UNCHANGED <<attempt, lpc, cur, tries, accounts, restarts>>
    /\ UNCHANGED <<reply, notify, cache>>
    /\ UNCHANGED sideVars

\* claim_upload_batch from the request to the response; on a 400 the client
\* returns [] and test_rclone_upload.main returns.
ClaimUploadRequest(u, inst, bs) ==
    /\ upc[u] = "idle"
    /\ IF UploadStatusCode(inst) = 400
       THEN UNCHANGED <<book_data, uheld, upc>>
       ELSE LET k == Min(UploadLimit(bs), Cardinality(UploadCandidates))
            IN  \E S \in KSubsets(UploadCandidates, k) :
                  /\ book_data' =
                        [i \in Ids |->
                           IF i \in S
                           THEN UploadClaimRow(book_data[i],
                                               UploadInstance(inst), now)
                           ELSE book_data[i]]
                  /\ uheld' = [uheld EXCEPT ![u] = S]
                  /\ upc' = [upc EXCEPT ![u] =
                               IF S = {} THEN "idle" ELSE "uploading"]
    /\ UNCHANGED <<now, wpc, claimTx, held, uploadTx, resetTx, grants>>
    /\ UNCHANGED <<attempt, loopVars>>
    /\ UNCHANGED <<reply, notify, cache>>
    /\ UNCHANGED sideVars

\* The table after the ingestion of CSV rows, some of them with files that
\* download_filecsv.py has already fetched.
IdInit ==
    /\ book_data \in [Items -> {NoRow, NewRow(0),
                                [NewRow(0) EXCEPT !.download_status = "done"]}]
    /\ now = 0
    /\ wpc = [w \in Workers |-> "idle"]
    /\ claimTx = [w \in Workers |-> NoTx]
    /\ held = [w \in Workers |-> {}]
    /\ upc = [u \in Uploaders |-> "idle"]
    /\ uploadTx = [u \in Uploaders |-> NoTx]
    /\ uheld = [u \in Uploaders |-> {}]
    /\ resetTx = NoReset
    /\ grants = [i \in Items |-> 0]
    /\ WorkerStart(MaxAccounts)
    /\ reply = NoReply
    /\ notify = NotifyAtStart(TRUE)
    /\ cache = NoCache
    /\ SideStart

IdNext ==
    \/ \E w \in LoopWorkers, inst \in InstanceIds, bs \in BatchSizes :
          ClaimBooksRequest(w, inst, bs)
    \/ \E w \in LoopWorkers, i \in Ids, o \in Outcomes : Report(w, i, o)
    \/ \E w \in LoopWorkers : Restart(w)
    \/ \E u \in Uploaders, inst \in InstanceIds, bs \in BatchSizes :
          ClaimUploadRequest(u, inst, bs)
    \/ \E u \in Uploaders, i \in Ids : UploadReport(u, i)
    \/ \E u \in Uploaders, i \in Ids : UploadGiveUp(u, i)

IdSpec == IdInit /\ [][IdNext]_vars

\* ------------------------------------------------------------------------
\* The upload claim model: two upload workers on a table with more done
\* rows than the batch cap, the claim_upload_batch requests only
\* ------------------------------------------------------------------------
UploadWorkers == {"u1", "u2"}    \* INSTANCE_ID of two upload workers

UploadClaimInit ==
    /\ \E n \in 0..Cardinality(SizeItems) : book_data = SizeTable(n)
    /\ now = 0
    /\ wpc = [w \in Workers |-> "idle"]
    /\ claimTx = [w \in Workers |-> NoTx]
    /\ held = [w \in Workers |-> {}]
    /\ upc = [u \in UploadWorkers |-> "idle"]
    /\ uploadTx = [u \in UploadWorkers |-> NoTx]
    /\ uheld = [u \in UploadWorkers |-> {}]
    /\ resetTx = NoReset
    /\ grants = [i \in SizeItems |-> 0]
    /\ WorkerStart(MaxAccounts)
    /\ reply = NoReply
    /\ notify = NotifyAtStart(TRUE)
    /\ cache = NoCache
    /\ SideStart

UploadClaimNext ==
    \/ \E u \in UploadWorkers, bs \in SizeBatchSizes : UploadSelect(u, bs)
    \/ \E u \in UploadWorkers : UploadCommit(u)
    \/ \E u \in UploadWorkers : UploadRollback(u)

UploadClaimSpec == UploadClaimInit /\ [][UploadClaimNext]_vars

\* ------------------------------------------------------------------------
\* The query endpoints
\* ------------------------------------------------------------------------
\* COUNT(CASE WHEN download_status = s THEN 1 END)
StatusCount(store, s) ==
    Cardinality({i \in DOMAIN store :
                    store[i].exists /\ store[i].download_status = s})

\* The row that the query of stats returns.
StatsData(store) ==
    [total |-> Cardinality({i \in DOMAIN store : store[i].exists}),
     uploaded |-> Cardinality({i \in DOMAIN store :
                     store[i].exists /\ ~IsEmpty(store[i].files_url_drive)}),
     downloaded |-> StatusCount(store, "done"),
     failed |-> StatusCount(store, "failed"),
     pending |-> StatusCount(store, "pending"),
     in_progress |-> StatusCount(store, "in_progress")]

\* SELECT download_status, COUNT(*) ... GROUP BY download_status
MetricsData(store) ==
    [s \in {store[i].download_status : i \in {j \in DOMAIN store :
                                                store[j].exists}}
        |-> StatusCount(store, s)]

\* The rows get_ready_for_upload returns: done and no files_url_drive.
ReadyForUpload(store) ==
    {i \in DOMAIN store : /\ store[i].exists
                          /\ store[i].download_status = "done"
                          /\ IsEmpty(store[i].files_url_drive)}

\* The answer of book_detail.
BookDetail(store, i) ==
    IF ~store[i].exists THEN [status |-> 404]
    ELSE [files_url_drive |-> store[i].files_url_drive,
          download_status |-> store[i].download_status]

\* The answer of get_direct_link.
DirectLink(store, i) ==
    IF ~store[i].exists \/ IsEmpty(store[i].files_url_drive)
    THEN [status |-> 404]
    ELSE [direct_link |-> store[i].files_url_drive]

\* A query endpoint answers: nothing but the answer changes.
Answer(endpoint, data) ==
    /\ reply' = [endpoint |-> endpoint, data |-> data]
    /\ UNCHANGED <<book_data, now, wpc, claimTx, held, upc, uploadTx, uheld,
                   resetTx, grants>>
    /\ UNCHANGED <<attempt, loopVars, notify, cache>>
    /\ UNCHANGED sideVars

\* stats: answered from the cache entry when there is one, else counted
\* from the table and stored in the cache for 60 seconds.
Stats ==
    /\ IF cache.present
       THEN /\ reply' = [endpoint |-> "stats", data |-> cache.data]
            /\ UNCHANGED cache
       ELSE /\ reply' = [endpoint |-> "stats", data |-> StatsData(book_data)]
            /\ cache' = [present |-> TRUE, data |-> StatsData(book_data)]
    /\ UNCHANGED <<book_data, now, wpc, claimTx, held, upc, uploadTx, uheld,
                   resetTx, grants>>
    /\ UNCHANGED <<attempt, loopVars, notify>>
    /\ UNCHANGED sideVars

\* The timeout of the cache entry (60 seconds, far below the unit of the
\* clock) runs out.
CacheExpire ==
    /\ cache.present
    /\ cache' = NoCache
    /\ UNCHANGED <<book_data, now, wpc, claimTx, held, upc, uploadTx, uheld,
                   resetTx, grants>>
    /\ UNCHANGED <<attempt, loopVars, reply, notify>>
    /\ UNCHANGED sideVars

Metrics == Answer("metrics", MetricsData(book_data))

BookDetailRequest(i) == Answer("book_detail", BookDetail(book_data, i))

GetDirectLink(i) == Answer("get_direct_link", DirectLink(book_data, i))

\* Mutant of GetReadyForUpload: the rows it returns are marked as taken.
GetReadyForUploadMarking ==
    /\ reply' = [endpoint |-> "get_ready_for_upload",
                 data |-> [ids |-> ReadyForUpload(book_data)]]
    /\ book_data' = [i \in Ids |->
                       IF i \in ReadyForUpload(book_data)
                       THEN [book_data[i] EXCEPT !.claimed_by = "uploader"]
                       ELSE book_data[i]]
    /\ UNCHANGED <<now, wpc, claimTx, held, upc, uploadTx, uheld, resetTx,
                   grants>>
    /\ UNCHANGED <<attempt, loopVars, notify, cache>>
    /\ UNCHANGED sideVars

GetReadyForUpload ==
    Answer("get_ready_for_upload", [ids |-> ReadyForUpload(book_data)])

\* One request to a query endpoint.
Query ==
    \/ Stats
    \/ Metrics
    \/ \E i \in Ids : BookDetailRequest(i)
    \/ \E i \in Ids : GetDirectLink(i)
    \/ GetReadyForUpload

\* Ingestion, one download worker, the upload worker and the reset at one
\* clock reading, with the query endpoints called in between.
QueryNext ==
    \/ \E i \in Items, s \in IngestStatuses : Ingest(i, s)
    \/ \E w \in LoopWorkers, bs \in BatchSizes : ClaimSelect(w, bs)
    \/ \E w \in LoopWorkers : ClaimCommit(w)
    \/ \E w \in LoopWorkers, i \in Ids, o \in Outcomes : Report(w, i, o)
    \/ \E rf \in BOOLEAN : ResetSelect(NULL, rf, 0)
    \/ ResetCommit
    \/ \E u \in Uploaders, bs \in BatchSizes : UploadSelect(u, bs)
    \/ \E u \in Uploaders : UploadCommit(u)
    \/ \E u \in Uploaders, i \in Ids : UploadReport(u, i)
    \/ Tick
    \/ Stats
    \/ CacheExpire
    \/ Metrics
    \/ \E i \in Ids : BookDetailRequest(i)
    \/ \E i \in Ids : GetDirectLink(i)
    \/ GetReadyForUpload

QuerySpec == Init /\ [][QueryNext]_vars

\* ------------------------------------------------------------------------
\* notify.py: send_telegram and the functions built on it
\* ------------------------------------------------------------------------
\* The tags of the notifications the download worker sends.
Tags == {"batch_download", "fatal_error", "login_failed_a", "limit_a"}

\* What happens to the POST to the Telegram API.
Deliveries == {"ok", "non200", "exception"}

\* Mutant of Throttled: no notification is held back.
ThrottledNever(tag, t, last, min_interval) == FALSE

\* if tag: last = _last_sent.get(tag, 0); if now - last < min_interval
Throttled(tag, t, last, min_interval) ==
    tag # NULL /\ t - last < min_interval

\* try: resp = requests.post(...) ... except Exception: print(...)
Delivered(delivery) == "returned"

\* The two last times at which a POST was made, the older one first.
Attempted(pair, t) == <<pair[2], t>>

\* send_telegram(message, tag, min_interval) called at the clock reading
\* of notify, the POST ending as delivery says.
SendTelegram(tag, min_interval, delivery) ==
    /\ notify' =
          IF Throttled(tag, notify.clock, notify.last_sent[tag],
                       min_interval)
          THEN [notify EXCEPT !.result = "returned",
                              !.delivery = "skipped"]
          ELSE IF ~notify.configured
          THEN [notify EXCEPT !.last_sent[tag] = notify.clock,
                              !.result = "returned",
                              !.delivery = "unconfigured"]
          ELSE [notify EXCEPT !.last_sent[tag] = notify.clock,
                              !.attempts[tag] = Attempted(@, notify.clock),
                              !.result = Delivered(delivery),
                              !.delivery = delivery]
    /\ UNCHANGED <<book_data, now, wpc, claimTx, held, upc, uploadTx, uheld,
                   resetTx, grants>>
    /\ UNCHANGED <<attempt, loopVars, reply, cache>>
    /\ UNCHANGED sideVars

\* send_batch_summary(success, failed, batch_type='Download')
SendBatchSummary(delivery) ==
    SendTelegram("batch_download", BATCH_INTERVAL, delivery)

\* send_fatal_error(error_msg, context)
SendFatalError(delivery) ==
    SendTelegram("fatal_error", FATAL_INTERVAL, delivery)

\* send_login_failed(email)
SendLoginFailed(delivery) ==
    SendTelegram("login_failed_a", ACCOUNT_INTERVAL, delivery)

\* send_limit_hit(email)
SendLimitHit(delivery) ==
    SendTelegram("limit_a", ACCOUNT_INTERVAL, delivery)

\* time.time() moves on by 150 seconds.
NotifyTick ==
    /\ notify.clock < NOTIFY_START + MaxNotifyTime
    /\ notify' = [notify EXCEPT !.clock = @ + 1]
    /\ UNCHANGED <<book_data, now, wpc, claimTx, held, upc, uploadTx, uheld,
                   resetTx, grants>>
    /\ UNCHANGED <<attempt, loopVars, reply, cache>>
    /\ UNCHANGED sideVars

\* A process that has imported notify, with or without the bot token set.
NotifyInit ==
    /\ book_data = [i \in Items |-> NoRow]
    /\ now = 0
    /\ wpc = [w \in Workers |-> "idle"]
    /\ claimTx = [w \in Workers |-> NoTx]
    /\ held = [w \in Workers |-> {}]
    /\ upc = [u \in Uploaders |-> "idle"]
    /\ uploadTx = [u \in Uploaders |-> NoTx]
    /\ uheld = [u \in Uploaders |-> {}]
    /\ resetTx = NoReset
    /\ grants = [i \in Items |-> 0]
    /\ WorkerStart(MaxAccounts)
    /\ reply = NoReply
    /\ \E c \in BOOLEAN : notify = NotifyAtStart(c)
    /\ cache = NoCache
    /\ SideStart

NotifyNext ==
    \/ \E d \in Deliveries : SendBatchSummary(d)
    \/ \E d \in Deliveries : SendFatalError(d)
    \/ \E d \in Deliveries : SendLoginFailed(d)
    \/ \E d \in Deliveries : SendLimitHit(d)
    \/ NotifyTick

NotifySpec == NotifyInit /\ [][NotifyNext]_vars

\* ------------------------------------------------------------------------
\* The reset frame model: two download workers and a reset that is called
\* for the items of one of them
\* ------------------------------------------------------------------------
\* reset_inprogress with {instance_id: 'w1', max_age_hours: 0}
FrameReset == ResetSelect("w1", FALSE, 0)

FrameNext ==
    \/ \E w \in Workers, bs \in BatchSizes : ClaimSelect(w, bs)
    \/ \E w \in Workers : ClaimCommit(w)
    \/ \E w \in Workers, i \in Ids, o \in Outcomes : Report(w, i, o)
    \/ FrameReset
    \/ ResetCommit
    \/ Tick

FrameSpec == LoopInit /\ [][FrameNext]_vars

\* ------------------------------------------------------------------------
\* The upload liveness model: two upload workers that are run again and
\* again, a periodic reset and a clock that goes on
\* ------------------------------------------------------------------------
UploadLiveInit ==
    /\ book_data \in [Items -> {NoRow, NewRow(0),
                                [NewRow(0) EXCEPT !.download_status = "done"]}]
    /\ now = 0
    /\ wpc = [w \in Workers |-> "idle"]
    /\ claimTx = [w \in Workers |-> NoTx]
    /\ held = [w \in Workers |-> {}]
    /\ upc = [u \in UploadWorkers |-> "idle"]
    /\ uploadTx = [u \in UploadWorkers |-> NoTx]
    /\ uheld = [u \in UploadWorkers |-> {}]
    /\ resetTx = NoReset
    /\ grants = [i \in Items |-> 0]
    /\ WorkerStart(MaxAccounts)
    /\ reply = NoReply
    /\ notify = NotifyAtStart(TRUE)
    /\ cache = NoCache
    /\ SideStart

\* One step of test_rclone_upload.main run by the upload worker u.
UploadLiveStep(u) ==
    \/ \E bs \in BatchSizes : UploadSelect(u, bs)
    \/ UploadCommit(u)
    \/ \E i \in Ids : UploadReport(u, i)
    \/ \E i \in Ids : UploadGiveUp(u, i)

\* The periodic reset: every instance, failed items too, max_age_hours 0.
UploadLiveReset == ResetSelect(NULL, TRUE, 0)

UploadLiveNext ==
    \/ \E u \in UploadWorkers : UploadLiveStep(u)
    \/ UploadLiveReset
    \/ ResetCommit
    \/ LiveTick

\* The upload workers are run again and again, the reset is called again
\* and again and runs to its commit, and time passes.
UploadLiveSpec ==
    /\ UploadLiveInit
    /\ [][UploadLiveNext]_vars
    /\ \A u \in UploadWorkers : WF_vars(UploadLiveStep(u))
    /\ WF_vars(UploadLiveReset)
    /\ WF_vars(ResetCommit)
    /\ WF_vars(LiveTick)

\* ------------------------------------------------------------------------
\* The upload loop model: test_rclone_upload.main from its claim to its
\* return
\* ------------------------------------------------------------------------
\* main stops with books of its batch left: the download directory is
\* empty, no remote takes the file (quota on all of them, or the copy
\* fails), or an exception reaches the handler.
UploadStop(u) ==
    /\ upc[u] = "uploading"
    /\ uheld' = [uheld EXCEPT ![u] = {}]
    /\ upc' = [upc EXCEPT ![u] = "idle"]
    /\ UNCHANGED <<book_data, now, wpc, claimTx, held, uploadTx, resetTx,
                   grants>>
    /\ UNCHANGED <<attempt, loopVars>>
    /\ UNCHANGED <<reply, notify, cache>>
    /\ UNCHANGED sideVars

UploadLoopNext ==
    \/ \E u \in UploadWorkers : UploadLiveStep(u)
    \/ \E u \in UploadWorkers : UploadRollback(u)
    \/ \E u \in UploadWorkers : UploadStop(u)

UploadLoopSpec == UploadLiveInit /\ [][UploadLoopNext]_vars

\* ------------------------------------------------------------------------
\* The report model: upload_data as it takes reports, for stored ids from
\* the worker that holds them and for ids that are not stored
\* ------------------------------------------------------------------------
\* update_book_status(i, o) posted for an id that no row has.
StrayReport(i, o) ==
    /\ ~book_data[i].exists
    /\ i \notin LockedRows
    /\ book_data' = UploadData(book_data, ReportPayload(i, o), now)
    /\ grants' = ZeroGrants
    /\ UNCHANGED <<now, wpc, claimTx, held, upc, uploadTx, uheld, resetTx>>
    /\ UNCHANGED <<attempt, loopVars>>
    /\ cache' = CacheAfterUpload(book_data, ReportPayload(i, o))
    /\ UNCHANGED <<reply, notify>>
    /\ UNCHANGED sideVars

ReportNext ==
    \/ \E i \in Items, s \in IngestStatuses : Ingest(i, s)
    \/ \E w \in LoopWorkers, bs \in BatchSizes : ClaimSelect(w, bs)
    \/ \E w \in LoopWorkers : ClaimCommit(w)
    \/ \E w \in LoopWorkers, i \in Ids, o \in Outcomes : Report(w, i, o)
    \/ \E i \in Ids, o \in Outcomes : StrayReport(i, o)

ReportSpec == Init /\ [][ReportNext]_vars

\* ------------------------------------------------------------------------
\* Properties
\* ------------------------------------------------------------------------
PendingRows ==
    {i \in Ids : book_data[i].exists
                 /\ book_data[i].download_status = "pending"}

\* C1: between two committed resets, reports or ingestions, no id is
\* returned by claim_books twice, concurrent claim transactions hold
\* disjoint sets of rows, and every row a claim holds is pending.
C1_ClaimsExclusive ==
    /\ \A i \in Ids : grants[i] <= 1
    /\ \A w1, w2 \in Workers :
          w1 # w2 => claimTx[w1].books \cap claimTx[w2].books = {}
    /\ \A w \in Workers : \A i \in claimTx[w].books :
          book_data[i].exists /\ book_data[i].download_status = "pending"

\* Two claim_books transactions are open at once, each holding rows.
C1_Witness ==
    \E w1, w2 \in Workers :
        /\ w1 # w2
        /\ claimTx[w1].books # {}
        /\ claimTx[w2].books # {}

\* C2: the commit of claim_books leaves every returned row in_progress and
\* claimed by the caller, returns only rows that were pending, and leaves
\* the status and owner of every other row as they were.
C2_ClaimEffect ==
    [][\A w \in Workers : ClaimCommit(w) =>
          /\ \A i \in held'[w] :
                /\ book_data[i].download_status = "pending"
                /\ book_data'[i].download_status = "in_progress"
                /\ book_data'[i].claimed_by = w
          /\ \A i \in Ids \ held'[w] :
                /\ book_data'[i].download_status = book_data[i].download_status
                /\ book_data'[i].claimed_by = book_data[i].claimed_by]_vars

\* A worker holds a claimed batch while another row is still pending.
C2_Witness ==
    \E w \in Workers :
        /\ wpc[w] = "working"
        /\ held[w] # {}
        /\ \A i \in held[w] : /\ book_data[i].download_status = "in_progress"
                              /\ book_data[i].claimed_by = w
        /\ PendingRows # {}

\* C3: claim_books selects at most min(batch_size, 20) rows, exactly
\* min(min(batch_size, 20), pending rows) when no row is locked, and the
\* batch it returns is the selection.
C3_ClaimSize ==
    [][\A w \in Workers :
          /\ (wpc[w] = "idle" /\ wpc'[w] = "claiming") =>
                LET n == Cardinality(claimTx'[w].books)
                    bs == claimTx'[w].batch_size
                    cap == IF bs < 20 THEN bs ELSE 20
                    p == Cardinality(PendingRows)
                IN  /\ n <= cap
                    /\ LockedRows = {} => n = (IF cap < p THEN cap ELSE p)
          /\ (wpc[w] = "claiming" /\ wpc'[w] = "working") =>
                held'[w] = claimTx[w].books]_vars

\* A worker was handed exactly 20 books although more were asked for and
\* more than 20 were pending.
C3_Witness ==
    \E w \in Workers :
        /\ wpc[w] = "working"
        /\ Cardinality(held[w]) = 20
        /\ PendingRows # {}

\* C4: claim_upload_batch selects and returns only rows whose
\* download_status is done, whose files_url_drive is empty and whose
\* claimed_by is empty; a row it holds is never pending, in_progress or
\* failed.
C4_UploadGating ==
    [][\A u \in Uploaders :
          /\ \A bs \in BatchSizes : UploadSelect(u, bs) =>
                \A i \in uploadTx'[u].books :
                    /\ book_data[i].download_status = "done"
                    /\ book_data[i].files_url_drive \in {NULL, ""}
                    /\ book_data[i].claimed_by \in {NULL, ""}
          /\ UploadCommit(u) =>
                \A i \in uheld'[u] :
                    /\ book_data[i].download_status = "done"
                    /\ book_data'[i].download_status = "done"
                    /\ book_data[i].files_url_drive \in {NULL, ""}
                    /\ book_data[i].claimed_by \in {NULL, ""}]_vars

\* An upload worker holds a batch while another row is not yet done.
C4_Witness ==
    \E u \in Uploaders :
        /\ upc[u] = "uploading"
        /\ uheld[u] # {}
        /\ \E i \in Ids : /\ book_data[i].exists
                          /\ book_data[i].download_status
                                \in {"pending", "in_progress", "failed"}

\* C5: when the worker that holds the lease of an item reports it done, the
\* item is eligible for claim_upload_batch right after the report.
C5_DoneReportEnablesUpload ==
    [][\A w \in Workers : \A i \in Ids :
          ( /\ Report(w, i, "done")
            /\ book_data[i].download_status = "in_progress"
            /\ book_data[i].claimed_by = w )
          => /\ book_data'[i].download_status = "done"
             /\ book_data'[i].files_url_drive \in {NULL, ""}
             /\ book_data'[i].claimed_by \in {NULL, ""}]_vars

\* C6: a report against an item that is not in_progress leaves the item's
\* download_status and claimed_by unchanged.
C6_ReportNeedsLease ==
    [][\A w \in Workers : \A i \in Ids : \A o \in Outcomes :
          ( /\ Report(w, i, o)
            /\ book_data[i].exists
            /\ book_data[i].download_status # "in_progress" )
          => /\ book_data'[i].download_status = book_data[i].download_status
             /\ book_data'[i].claimed_by = book_data[i].claimed_by]_vars

\* C7: a report from a worker whose lease was reset, for an item that
\* another worker has claimed since, leaves the item in_progress and owned
\* by the new worker.
C7_StaleReportIsolated ==
    [][\A w \in Workers : \A i \in Ids : \A o \in Outcomes :
          ( /\ Report(w, i, o)
            /\ book_data[i].download_status = "in_progress"
            /\ book_data[i].claimed_by \in Workers \ {w} )
          => /\ book_data'[i].download_status = "in_progress"
             /\ book_data'[i].claimed_by = book_data[i].claimed_by]_vars

\* C8: after the lease holder reports its item done or failed, the item's
\* download_status is the reported outcome and its claimed_by is cleared.
C8_ReportEffect ==
    [][\A w \in Workers : \A i \in Ids : \A o \in Outcomes :
          ( /\ Report(w, i, o)
            /\ book_data[i].download_status = "in_progress"
            /\ book_data[i].claimed_by = w )
          => /\ book_data'[i].download_status = o
             /\ book_data'[i].claimed_by \in {NULL, ""}]_vars

\* C9: an item's claimed_by is non-empty exactly when its download_status
\* is in_progress.
C9_OwnerIffInProgress ==
    \A i \in Ids : book_data[i].exists =>
        ( (book_data[i].claimed_by \notin {NULL, ""})
          <=> book_data[i].download_status = "in_progress" )

\* C10: a stored item's download_status changes only from pending to
\* in_progress by a claim, from in_progress to done or failed by the report
\* of the worker that holds the lease, or from in_progress or failed to
\* pending by reset_inprogress.
C10_StatusTransitions ==
    [][\A i \in Ids :
          ( /\ book_data[i].exists
            /\ book_data'[i].download_status # book_data[i].download_status )
          => LET old == book_data[i].download_status
                 new == book_data'[i].download_status
             IN  \/ /\ old = "pending"
                    /\ new = "in_progress"
                    /\ \E w \in Workers : ClaimCommit(w) /\ i \in held'[w]
                 \/ /\ old = "in_progress"
                    /\ new \in Outcomes
                    /\ \E w \in Workers :
                          Report(w, i, new) /\ book_data[i].claimed_by = w
                 \/ /\ old \in {"in_progress", "failed"}
                    /\ new = "pending"
                    /\ ResetCommit]_vars

\* C11: the query of reset_inprogress loads exactly the rows whose
\* updated_at is older than now - max_age_hours, whose download_status is
\* in_progress (or in_progress or failed when reset_failed is set) and, when
\* instance_id is given, whose claimed_by is instance_id; its commit sets
\* every loaded row to pending with claimed_by cleared, leaves every other
\* row as it was, and reset_count is the number of rows changed.
C11_ResetEffect ==
    [][/\ (~resetTx.open /\ resetTx'.open) =>
          \A inst \in ResetInstances, rf \in BOOLEAN, age \in MaxAges :
             ResetSelect(inst, rf, age) =>
                resetTx'.books =
                   {i \in Ids :
                       /\ book_data[i].exists
                       /\ book_data[i].updated_at < now - age
                       /\ book_data[i].download_status \in
                             (IF rf THEN {"in_progress", "failed"}
                              ELSE {"in_progress"})
                       /\ (inst # NULL => book_data[i].claimed_by = inst)}
       /\ ResetCommit =>
             /\ \A i \in resetTx.books :
                   /\ book_data'[i].download_status = "pending"
                   /\ book_data'[i].claimed_by = NULL
             /\ \A i \in Ids \ resetTx.books : book_data'[i] = book_data[i]
             /\ ResetCount(resetTx.books) =
                   Cardinality({i \in Ids : book_data'[i] # book_data[i]})]_vars

\* A reset has loaded a stale lease and left a fresh lease alone.
C11_Witness ==
    /\ resetTx.open
    /\ resetTx.books # {}
    /\ \E i \in Ids \ resetTx.books :
          /\ book_data[i].exists
          /\ book_data[i].download_status = "in_progress"

\* C12: a lease of worker A that was never reported and is older than
\* max_age is loaded by a reset for A or for all instances; the commit of the
\* reset makes the row pending and claimable; a claim by a worker B that asks
\* for at least as many rows as are claimable selects it, and its commit
\* returns the row to B in_progress with claimed_by = B.
C12_Reclaim ==
    [][/\ (~resetTx.open /\ resetTx'.open) =>
          \A inst \in ResetInstances, rf \in BOOLEAN, age \in MaxAges :
             ResetSelect(inst, rf, age) =>
                \A i \in Ids : \A a \in Workers :
                    ( /\ book_data[i].exists
                      /\ book_data[i].download_status = "in_progress"
                      /\ book_data[i].claimed_by = a
                      /\ inst \in {NULL, a}
                      /\ book_data[i].updated_at + age < now )
                    => i \in resetTx'.books
       /\ ResetCommit =>
             \A i \in resetTx.books :
                 /\ book_data'[i].download_status = "pending"
                 /\ i \in ClaimCandidates'
       /\ \A b \in Workers :
             /\ (wpc[b] = "idle" /\ wpc'[b] = "claiming") =>
                \A bs \in BatchSizes :
                   ( /\ ClaimSelect(b, bs)
                     /\ Cardinality(ClaimCandidates) <= bs
                     /\ Cardinality(ClaimCandidates) <= 20 )
                   => claimTx'[b].books = ClaimCandidates
             /\ ClaimCommit(b) =>
                   \A i \in claimTx[b].books :
                       /\ i \in held'[b]
                       /\ book_data'[i].download_status = "in_progress"
                       /\ book_data'[i].claimed_by = b]_vars

\* Worker A still holds a book it never reported while the row is leased
\* to worker B after a reset.
C12_Witness ==
    \E a, b \in Workers : \E i \in Ids :
        /\ a # b
        /\ i \in held[a]
        /\ i \in held[b]
        /\ book_data[i].download_status = "in_progress"
        /\ book_data[i].claimed_by = b

\* C18: the commit of claim_books leases every selected row to the caller
\* and returns exactly those rows; a claim_books that fails changes no row
\* and returns nothing; after any step, the rows held by an open claim
\* transaction are leased to its caller either all or not at all.
C18_ClaimAtomic ==
    [][\A w \in Workers :
          /\ ClaimCommit(w) =>
                /\ held'[w] = claimTx[w].books
                /\ \A i \in claimTx[w].books :
                      /\ book_data'[i].download_status = "in_progress"
                      /\ book_data'[i].claimed_by = w
          /\ ClaimRollback(w) =>
                /\ book_data' = book_data
                /\ held'[w] = held[w]
          /\ LET leased == {i \in claimTx[w].books :
                              /\ book_data'[i].download_status = "in_progress"
                              /\ book_data'[i].claimed_by = w}
             IN  leased = {} \/ leased = claimTx[w].books]_vars

\* A claim transaction holds two rows, none of them leased yet.
C18_Witness ==
    \E w \in Workers :
        /\ wpc[w] = "claiming"
        /\ Cardinality(claimTx[w].books) >= 2
        /\ \A i \in claimTx[w].books :
              book_data[i].download_status = "pending"

\* C19: in every state, a reset_inprogress that runs to its commit and is
\* followed at once by a second one with the same filter leaves the table
\* as the first one left it, and the second one counts no row; a reset that
\* is rolled back changes no row.
C19_ResetIdempotent ==
    /\ [](\A inst \in ResetInstances, rf \in BOOLEAN, age \in MaxAges :
             LET once == ResetStore(book_data,
                                    ResetMatches(inst, rf, age), now)
                 again == ResetMatchesIn(once, now, inst, rf, age)
             IN  /\ ResetCount(again) = 0
                 /\ ResetStore(once, again, now) = once)
    /\ [][ResetRollback => book_data' = book_data]_vars

\* A reset that would change a row is open, so that running it or
\* rolling it back makes a difference.
C19_Witness ==
    /\ resetTx.open
    /\ \E i \in resetTx.books :
          /\ book_data[i].download_status = "failed"
          /\ book_data[i].updated_at < now

StoredIds == {i \in Ids : book_data[i].exists}

\* C20: the table is keyed by id; an upload_data call for an id that is
\* stored updates that row (the columns that are not sent keep their values)
\* and reports 'updated', a call for a new id inserts a row with the column
\* defaults and reports 'inserted'; a batch does the same item by item, a
\* repeated id being inserted once and then updated, and no call adds a row
\* for an id that was not sent or removes one.
C20_IngestUpsert ==
    [][(wpc' = wpc) =>
       /\ \A i \in Items, s \in IngestStatuses :
             Ingest(i, s) =>
                /\ StoredIds' = StoredIds \cup {i}
                /\ \A j \in Ids \ {i} : book_data'[j] = book_data[j]
                /\ IF book_data[i].exists
                   THEN /\ UploadStatus(book_data, IngestPayload(i, s))
                              = "updated"
                        /\ book_data'[i].claimed_by = book_data[i].claimed_by
                        /\ book_data'[i].files_url_drive
                              = book_data[i].files_url_drive
                        /\ book_data'[i].download_status =
                              (IF s = NoField
                               THEN book_data[i].download_status ELSE s)
                   ELSE /\ UploadStatus(book_data, IngestPayload(i, s))
                              = "inserted"
                        /\ book_data'[i].claimed_by = NULL
                        /\ book_data'[i].download_status =
                              (IF s = NoField THEN "pending" ELSE s)
       /\ \A items \in IngestBatches :
             IngestBatch(items) =>
                /\ StoredIds' = StoredIds \cup BatchIds(items)
                /\ \A j \in Ids \ BatchIds(items) :
                      book_data'[j] = book_data[j]
                /\ \A j \in BatchIds(items) \cap StoredIds :
                      /\ book_data'[j].claimed_by = book_data[j].claimed_by
                      /\ book_data'[j].files_url_drive
                            = book_data[j].files_url_drive
                /\ \A k \in DOMAIN items :
                      BatchResults(book_data, items, now)[k] =
                         (IF \/ items[k].id \in StoredIds
                             \/ \E m \in 1..(k - 1) : items[m].id = items[k].id
                          THEN "updated" ELSE "inserted")]_vars

\* A row leased to a worker is stored next to an id that is not stored
\* yet, so that the next upload can update the one and insert the other.
C20_Witness ==
    /\ \E i \in Ids : /\ book_data[i].exists
                      /\ book_data[i].claimed_by \in Workers
    /\ \E i \in Ids : ~book_data[i].exists

\* C14: the download worker calls update_book_status for every book of a
\* claimed batch before it claims again or exits: it never leaves a book of
\* its batch behind without a report.
C14_EveryItemReported ==
    \A w \in LoopWorkers : unreported[w] = {}

\* The store takes a failed report for the running book of w in this step.
FailedStored(w) ==
    /\ cur[w] # 0
    /\ book_data[cur[w]].download_status # "failed"
    /\ book_data'[cur[w]].download_status = "failed"

C17_ClaimFailureFailsClosed ==
    [][\A w \in LoopWorkers :
          (LoopClaimRollback(w) \/ ClaimUnreachable(w) \/ ClaimRefused(w))
          => /\ held'[w] = {}
             /\ book_data' = book_data
             /\ PendingRows # {} => wpc'[w] # "drained"]_vars

\* C13: with the worker, the periodic reset and the clock all running,
\* every stored item reaches download_status done or failed, and no item
\* stays in_progress for ever.
C13_NoLoss ==
    \A i \in Items :
        /\ [](book_data[i].exists =>
                 <>(book_data[i].download_status \in {"done", "failed"}))
        /\ ~<>[](book_data[i].download_status = "in_progress")

\* ------------------------------------------------------------------------
\* Frame of the lease columns
\* ------------------------------------------------------------------------
\* The lease state of a row.
LeaseOf(row) == <<row.download_status, row.claimed_by>>

\* C21: download_status and claimed_by of a stored item change only through
\* claim and report; sending a stored id again through upload_data, as one
\* CSV row or inside a CSV batch, leaves both columns of the item unchanged.
C21_IngestKeepsLease ==
    [][/\ \A i \in Items, s \in IngestStatuses :
             Ingest(i, s) =>
                \A j \in StoredIds :
                   LeaseOf(book_data'[j]) = LeaseOf(book_data[j])
       /\ \A items \in IngestBatches :
             IngestBatch(items) =>
                \A j \in StoredIds :
                   LeaseOf(book_data'[j]) = LeaseOf(book_data[j])
       /\ (\E j \in StoredIds :
              LeaseOf(book_data'[j]) # LeaseOf(book_data[j]))
          => \E w \in LoopWorkers :
                \/ ClaimCommit(w)
                \/ \E i \in Ids, o \in Outcomes : Report(w, i, o)]_vars

\* ------------------------------------------------------------------------
\* The stored result of the download stage
\* ------------------------------------------------------------------------
\* getattr(book, k, None): the value a stored row holds under the key k;
\* a key that is no column of BookData holds nothing.
StoredField(row, k) == IF k \in DOMAIN row THEN row[k] ELSE NULL

\* C22: every stored item whose download_status is done holds the download
\* path that update_book_status(id, 'done', path) sent with the report.
C22_DoneHasPayload ==
    \A i \in Ids :
        (book_data[i].exists /\ book_data[i].download_status = "done")
        => StoredField(book_data[i], "download_path") # NULL

\* C23: claim_books and claim_upload_batch called with an empty instance_id
\* or one of more than 64 characters answer with an error and change no
\* item's download_status or claimed_by, the caller getting no item; every
\* item a claim hands out has a claimed_by of 1 to 64 characters.
C23_WorkerIdValidated ==
    /\ [][\A w \in LoopWorkers, inst \in InstanceIds, bs \in BatchSizes :
             ClaimBooksRequest(w, inst, bs) =>
                /\ (IsEmpty(inst) \/ Len(inst) > 64) =>
                      /\ ClaimStatusCode(inst) = 400
                      /\ held'[w] = {}
                      /\ \A i \in Ids :
                            LeaseOf(book_data'[i]) = LeaseOf(book_data[i])
                /\ \A i \in held'[w] :
                      /\ book_data'[i].claimed_by # NULL
                      /\ Len(book_data'[i].claimed_by) \in 1..64]_vars
    /\ [][\A u \in Uploaders, inst \in InstanceIds, bs \in BatchSizes :
             ClaimUploadRequest(u, inst, bs) =>
                /\ (IsEmpty(inst) \/ Len(inst) > 64) =>
                      /\ UploadStatusCode(inst) = 400
                      /\ uheld'[u] = {}
                      /\ \A i \in Ids :
                            LeaseOf(book_data'[i]) = LeaseOf(book_data[i])
                /\ \A i \in uheld'[u] :
                      /\ book_data'[i].claimed_by # NULL
                      /\ Len(book_data'[i].claimed_by) \in 1..64]_vars

\* A request with an instance_id of 64 characters has leased a row, and a
\* later request of the download worker was refused while a row is pending.
C23_Witness ==
    /\ \E i \in Ids : /\ book_data[i].exists
                      /\ book_data[i].claimed_by = FullId
    /\ \E w \in LoopWorkers : wpc[w] = "drained"
    /\ PendingRows # {}

\* C24: the batches that claim_upload_batch returns to concurrent callers
\* are pairwise disjoint; a call returns at most min(batch_size, 20) items;
\* and an item that an upload claim has returned is in no later upload
\* claim while its claimed_by is set: every returned item had an empty
\* claimed_by until the commit that returns it.
C24_UploadClaimsExclusive ==
    /\ [](\A u \in DOMAIN uheld, v \in DOMAIN uheld :
             u # v => uheld[u] \cap uheld[v] = {})
    /\ [][\A u \in DOMAIN upc :
             (upc[u] = "claiming" /\ upc'[u] # "claiming") =>
                /\ Cardinality(uheld'[u])
                      <= Min(uploadTx[u].batch_size, 20)
                /\ \A i \in uheld'[u] :
                      /\ IsEmpty(book_data[i].claimed_by)
                      /\ book_data'[i].claimed_by = u
                      /\ \A v \in DOMAIN uheld \ {u} : i \notin uheld[v]
                /\ \A i \in Ids \ uheld'[u] :
                      book_data'[i].claimed_by = book_data[i].claimed_by]_vars

\* One upload worker holds a batch of 20, the other holds what was left
\* for it.
C24_Witness ==
    /\ "u2" \in DOMAIN uheld
    /\ Cardinality(uheld["u1"]) = 20
    /\ uheld["u2"] # {}

\* C25: stats, metrics, book_detail, get_direct_link and
\* get_ready_for_upload change no item's download_status, claimed_by or
\* files_url_drive, add or remove no item, and hold no lock and no open
\* transaction: whatever claim, report or reset could do before one of them
\* answered, it can do after it with the same result.
C25_QueriesReadOnly ==
    [][(reply' # reply) =>
          /\ Query
          /\ \A i \in Ids :
                /\ book_data'[i].exists = book_data[i].exists
                /\ book_data'[i].download_status
                      = book_data[i].download_status
                /\ book_data'[i].claimed_by = book_data[i].claimed_by
                /\ book_data'[i].files_url_drive
                      = book_data[i].files_url_drive
          /\ UNCHANGED <<claimTx, uploadTx, resetTx, held, uheld, wpc, upc,
                         now>>]_vars

\* get_ready_for_upload has answered with a row that is still waiting for
\* its upload while another row is leased to a download worker and a reset
\* is between its query and its commit.
C25_Witness ==
    /\ reply.endpoint = "get_ready_for_upload"
    /\ reply.data.ids # {}
    /\ reply.data.ids = ReadyForUpload(book_data)
    /\ \E i \in Ids : book_data[i].download_status = "in_progress"
    /\ resetTx.open

\* C26: send_telegram, called through send_batch_summary, send_fatal_error,
\* send_login_failed or send_limit_hit, returns normally whether the
\* message is delivered, held back, answered with a status other than 200
\* or lost to a network exception; and two POSTs for the same tag are at
\* least min_interval apart.
C26_NotifyNeverBreaks ==
    /\ notify.result # "raised"
    /\ \A tag \in Tags :
          notify.attempts[tag][1] # NoTime =>
             notify.attempts[tag][2] - notify.attempts[tag][1]
                >= (IF tag = "batch_download" THEN 2
                    ELSE IF tag = "fatal_error" THEN 4 ELSE 6)

\* The POST of a notification has just raised a network exception and the
\* call has returned, and the same tag had been sent once before.
C26_Witness ==
    /\ notify.delivery = "exception"
    /\ notify.result = "returned"
    /\ \E tag \in Tags :
          /\ notify.attempts[tag][1] # NoTime
          /\ notify.attempts[tag][2] = notify.clock

\* C27: a reset called for worker w1 with reset_failed false and
\* max_age_hours 0 modifies no item that is pending or done, no item whose
\* updated_at is not older than the cutoff, no failed item, and no item
\* whose claimed_by is another worker.
C27_ResetFrame ==
    [][ResetCommit =>
          \A i \in Ids :
             book_data'[i] # book_data[i] =>
                /\ book_data[i].download_status \notin {"pending", "done"}
                /\ book_data[i].updated_at < now - 0
                /\ book_data[i].download_status # "failed"
                /\ book_data[i].claimed_by = "w1"]_vars

\* C28: an item that an upload worker has claimed and not reported becomes
\* eligible for claim_upload_batch again once the reset has run past
\* max_age; no done item stays claimed and without files_url_drive for
\* ever.
C28_UploadLeaseReclaimed ==
    \A i \in Items :
        /\ (/\ book_data[i].download_status = "done"
            /\ ~IsEmpty(book_data[i].claimed_by)
            /\ IsEmpty(book_data[i].files_url_drive))
           ~> (\/ ~IsEmpty(book_data[i].files_url_drive)
               \/ UploadEligible(book_data[i]))
        /\ ~<>[](/\ book_data[i].download_status = "done"
                 /\ ~IsEmpty(book_data[i].claimed_by)
                 /\ IsEmpty(book_data[i].files_url_drive))

\* C29: when test_rclone_upload.main has returned, every item it had
\* claimed is either reported (files_url_drive is set) or handed back
\* (claimed_by is cleared).
C29_UploadBatchResolved ==
    \A u \in DOMAIN upc :
        upc[u] = "idle" =>
           \A i \in Ids :
              (book_data[i].exists /\ book_data[i].claimed_by = u)
              => ~IsEmpty(book_data[i].files_url_drive)

\* C30: a report whose id matches no stored item creates no item and
\* changes no stored item.
C30_UnknownReportNoOp ==
    [][\A i \in Ids, o \in Outcomes :
          StrayReport(i, o) =>
             /\ StoredIds' = StoredIds
             /\ book_data' = book_data]_vars

\* The four status counts of a stats answer.
LeaseCounts(data) ==
    <<data.pending, data.in_progress, data.downloaded, data.failed>>

\* C31: every answer of stats carries the pending, in_progress, done and
\* failed counts the table has when the request is made, also when
\* claim_books, claim_upload_batch or reset_inprogress has committed since
\* the answer before.
C31_StatsCurrent ==
    [][Stats => LeaseCounts(reply'.data)
                   = LeaseCounts(StatsData(book_data))]_vars

\* C32: the commit of claim_upload_batch sets claimed_by and updated_at of
\* the rows it returns and nothing else: these rows were and stay done with
\* the files_url_drive they had, and every row it does not return, as well
\* as every row when the request is rolled back, is left as it was.
C32_UploadClaimFrame ==
    [][\A u \in DOMAIN upc :
          (upc[u] = "claiming" /\ upc'[u] # "claiming") =>
             /\ \A i \in uheld'[u] :
                   /\ book_data[i].download_status = "done"
                   /\ book_data'[i].download_status = "done"
                   /\ book_data'[i].files_url_drive
                         = book_data[i].files_url_drive
                   /\ book_data'[i].exists = book_data[i].exists
                   /\ book_data'[i].claimed_by = u
                   /\ book_data'[i].updated_at = now
             /\ \A i \in Ids \ uheld'[u] : book_data'[i] = book_data[i]]_vars

\* An upload claim has returned a row while another row, which it did not
\* return, is leased to a download worker.
C32_Witness ==
    /\ upc["u1"] = "uploading"
    /\ \E i \in uheld["u1"] :
          /\ book_data[i].claimed_by = "u1"
          /\ book_data[i].download_status = "done"
    /\ \E j \in Ids \ uheld["u1"] :
          /\ book_data[j].download_status = "in_progress"
          /\ book_data[j].claimed_by # NULL

\* ------------------------------------------------------------------------
\* main_bot.py on database.py: FreewareBot instances on one software_items
\* table
\* ------------------------------------------------------------------------
\* The k smallest elements of S in ascending order (ORDER BY ... LIMIT k;
\* the items were scraped in the order of their ids).
RECURSIVE FirstRows(_, _)
FirstRows(S, k) ==
    IF k = 0 \/ S = {} THEN <<>>
    ELSE LET m == CHOOSE x \in S : \A y \in S : x <= y
         IN  <<m>> \o FirstRows(S \ {m}, k - 1)

\* get_pending_downloads(limit): WHERE download_status = 'pending' AND
\* is_active = TRUE ORDER BY scraped_date ASC LIMIT limit
get_pending_downloads(store, limit) ==
    FirstRows({i \in DOMAIN store : /\ store[i].download_status = "pending"
                                    /\ store[i].is_active},
              limit)

\* update_download_status(software_id, status, file_path)
update_download_status(store, i, status, file_path) ==
    IF file_path # NULL
    THEN [store EXCEPT ![i].download_status = status,
                       ![i].file_path = file_path]
    ELSE [store EXCEPT ![i].download_status = status]

\* update_cloud_links(software_id, cloud_links)
update_cloud_links(store, i, links) ==
    [store EXCEPT ![i].cloud_links = links]

\* The batch sizes the jobs are called with.
MaxDownloads == {1, NumSoftware}

\* run_download_batch up to its loop: the pending rows are read; with none
\* the job returns.
BatchSelect(b, max_downloads) ==
    /\ bot[b].pc = "idle"
    /\ LET pending_items ==
              get_pending_downloads(software_items, max_downloads)
       IN  bot' = [bot EXCEPT ![b] =
                     IF pending_items = <<>> THEN BotIdle
                     ELSE [pc |-> "marking", items |-> pending_items]]
    /\ UNCHANGED <<software_items, downloads>>
    /\ UNCHANGED <<tableVars, pmVars, restVars>>

\* The head of an iteration: update_download_status(item, 'downloading').
MarkDownloading(b) ==
    /\ bot[b].pc = "marking"
    /\ software_items' =
          update_download_status(software_items, Head(bot[b].items),
                                 "downloading", NULL)
    /\ bot' = [bot EXCEPT ![b].pc = "downloading"]
    /\ UNCHANGED downloads
    /\ UNCHANGED <<tableVars, pmVars, restVars>>

\* downloader.download_file returns (or raises) and the result is stored;
\* the next iteration or the end of the job follows.
FinishDownload(b, success) ==
    /\ bot[b].pc = "downloading"
    /\ LET item == Head(bot[b].items)
       IN  /\ downloads' = [downloads EXCEPT ![item] = @ \cup {b}]
           /\ software_items' =
                 IF success
                 THEN update_download_status(software_items, item,
                                             "completed", "file")
                 ELSE update_download_status(software_items, item,
                                             "failed", NULL)
    /\ bot' = [bot EXCEPT ![b] =
                 IF Tail(bot[b].items) = <<>> THEN BotIdle
                 ELSE [pc |-> "marking", items |-> Tail(bot[b].items)]]
    /\ UNCHANGED <<tableVars, pmVars, restVars>>

\* The rows run_upload_batch works on: the rows get_pending_downloads
\* returns, filtered for download_status == 'completed' with a file_path.
completed_items(store, max_uploads) ==
    SelectSeq(get_pending_downloads(store, max_uploads),
              LAMBDA i : /\ store[i].download_status = "completed"
                         /\ store[i].file_path # NULL)

\* The loop of run_upload_batch: a row gets its cloud_links when at least
\* one provider took the file (linked).
RECURSIVE UploadItems(_, _, _)
UploadItems(store, items, linked) ==
    IF items = <<>> THEN store
    ELSE UploadItems(IF Head(items) \in linked
                     THEN update_cloud_links(store, Head(items), "links")
                     ELSE store,
                     Tail(items), linked)

\* run_upload_batch(max_uploads), the providers taking the files of linked.
run_upload_batch(b, max_uploads, linked) ==
    /\ bot[b].pc = "idle"
    /\ software_items' =
          UploadItems(software_items,
                      completed_items(software_items, max_uploads), linked)
    /\ UNCHANGED <<bot, downloads>>
    /\ UNCHANGED <<tableVars, pmVars, restVars>>

\* The table after a scrape, some items switched off by the admin panel.
BotInit ==
    /\ TableStart
    /\ \E active \in [SoftwareIds -> BOOLEAN] :
          software_items = [i \in SoftwareIds |-> ScrapedItem(active[i])]
    /\ bot = [b \in Bots |-> BotIdle]
    /\ downloads = [i \in SoftwareIds |-> {}]
    /\ PmStart
    /\ RestStart

\* The jobs of one bot.
BotStep(b) ==
    \/ \E n \in MaxDownloads : BatchSelect(b, n)
    \/ MarkDownloading(b)
    \/ \E success \in BOOLEAN : FinishDownload(b, success)
    \/ \E n \in MaxDownloads, linked \in SUBSET SoftwareIds :
          run_upload_batch(b, n, linked)

BotNext == \E b \in Bots : BotStep(b)

BotSpec == BotInit /\ [][BotNext]_vars

\* schedule runs both jobs of every bot again and again.
BotFairSpec == BotSpec /\ \A b \in Bots : WF_vars(BotStep(b))

\* The rows a bot has selected and not yet marked.
Selected(b) ==
    IF bot[b].pc = "marking" THEN {bot[b].items[k] : k \in DOMAIN bot[b].items}
    ELSE IF bot[b].pc = "downloading"
         THEN {bot[b].items[k] : k \in DOMAIN bot[b].items \ {1}}
         ELSE {}

\* C33: no software item is downloaded by two bots, and the rows one bot
\* has selected and not yet marked 'downloading' are selected by no other
\* bot.
C33_DownloadsExclusive ==
    /\ \A i \in SoftwareIds : Cardinality(downloads[i]) <= 1
    /\ \A b1, b2 \in Bots :
          b1 # b2 => Selected(b1) \cap Selected(b2) = {}

\* C34: every item that is completed with a file_path gets its cloud_links
\* through some run_upload_batch call.
C34_CompletedUploaded ==
    \A i \in SoftwareIds :
       (software_items[i].download_status = "completed"
        /\ software_items[i].file_path # NULL)
          ~> (software_items[i].cloud_links # NULL)

\* ------------------------------------------------------------------------
\* controller_api.py: ProcessManager, its monitoring thread and
\* run_script_with_enhanced_retry in the main thread.  The import of notify
\* at the head of the module fails on names notify.py does not define, so
\* NOTIFICATIONS_AVAILABLE is False and no notification is sent.
\* ------------------------------------------------------------------------
Ended == {"exit0", "exit1", "killed"}

\* process.returncode == 0
ReturnedZero(state) == state = "exit0"

\* for attempt in range(MAX_RETRY_ATTEMPTS): the next iteration, or the
\* return False behind the loop.
NextAttempt(c) ==
    IF c.attempt + 1 < MAX_RETRY_ATTEMPTS
    THEN [c EXCEPT !.attempt = @ + 1, !.pc = "start"]
    ELSE [c EXCEPT !.pc = "returned", !.result = FALSE]

\* start_process: refused when the table is full or when Popen raises,
\* else the process runs, is tracked and counted.
start_process(popen_ok) ==
    /\ ctl.pc = "start"
    /\ LET proc_id == ProcId(ctl.script, ctl.attempt)
       IN  IF Cardinality(processes) >= MAX_CONCURRENT_PROCESSES
              \/ ~popen_ok
           THEN /\ ctl' = NextAttempt(ctl)
                /\ UNCHANGED <<procs, processes, process_stats>>
           ELSE /\ procs' = [procs EXCEPT ![proc_id] = "running"]
                /\ processes' = processes \cup {proc_id}
                /\ process_stats' =
                      [process_stats EXCEPT !.total_started = @ + 1,
                                            !.current_running = @ + 1]
                /\ ctl' = [ctl EXCEPT !.pc = "check"]
    /\ UNCHANGED pipeline
    /\ UNCHANGED <<tableVars, botVars, restVars>>

\* wait_for_process: if proc_id not in self.processes: return False
WaitCheck ==
    /\ ctl.pc = "check"
    /\ ctl' = IF ProcId(ctl.script, ctl.attempt) \in processes
              THEN [ctl EXCEPT !.pc = "lookup"]
              ELSE NextAttempt(ctl)
    /\ UNCHANGED <<procs, processes, process_stats, pipeline>>
    /\ UNCHANGED <<tableVars, botVars, restVars>>

\* wait_for_process: process = self.processes[proc_id]['process'], a
\* KeyError when the entry is gone.
WaitLookup ==
    /\ ctl.pc = "lookup"
    /\ ctl' = IF ProcId(ctl.script, ctl.attempt) \in processes
              THEN [ctl EXCEPT !.pc = "wait"]
              ELSE [ctl EXCEPT !.pc = "raised"]
    /\ UNCHANGED <<procs, processes, process_stats, pipeline>>
    /\ UNCHANGED <<tableVars, botVars, restVars>>

\* wait_for_process: the process has ended, return process.returncode == 0.
WaitPoll ==
    /\ ctl.pc = "wait"
    /\ procs[ProcId(ctl.script, ctl.attempt)] \in Ended
    /\ ctl' = IF ReturnedZero(procs[ProcId(ctl.script, ctl.attempt)])
              THEN [ctl EXCEPT !.pc = "returned", !.result = TRUE]
              ELSE NextAttempt(ctl)
    /\ UNCHANGED <<procs, processes, process_stats, pipeline>>
    /\ UNCHANGED <<tableVars, botVars, restVars>>

\* wait_for_process: PROCESS_TIMEOUT is over and the process still runs.
WaitTimeout ==
    /\ ctl.pc = "wait"
    /\ procs[ProcId(ctl.script, ctl.attempt)] = "running"
    /\ ctl' = NextAttempt(ctl)
    /\ UNCHANGED <<procs, processes, process_stats, pipeline>>
    /\ UNCHANGED <<tableVars, botVars, restVars>>

\* The script ends by itself with exit code 0 or 1.
ProcessExit(p, code) ==
    /\ procs[p] = "running"
    /\ procs' = [procs EXCEPT ![p] = IF code = 0 THEN "exit0" ELSE "exit1"]
    /\ UNCHANGED <<processes, process_stats, ctl, pipeline>>
    /\ UNCHANGED <<tableVars, botVars, restVars>>

\* _monitor_processes finds a tracked process ended: it is counted and
\* removed from the table.
MonitorFinished(p) ==
    /\ p \in processes
    /\ procs[p] \in Ended
    /\ process_stats' =
          IF ReturnedZero(procs[p])
          THEN [process_stats EXCEPT !.total_completed = @ + 1,
                                     !.current_running = @ - 1]
          ELSE [process_stats EXCEPT !.total_failed = @ + 1,
                                     !.current_running = @ - 1]
    /\ processes' = processes \ {p}
    /\ UNCHANGED <<procs, ctl, pipeline>>
    /\ UNCHANGED <<tableVars, botVars, restVars>>

\* _monitor_processes finds a tracked process running for longer than
\* PROCESS_TIMEOUT: _terminate_process ends it and counts it as failed; the
\* entry stays in the table.  By then the main thread is long past the first
\* statements of its wait_for_process call for p.
MonitorTimeout(p) ==
    /\ p \in processes
    /\ procs[p] = "running"
    /\ ~(ctl.pc \in {"check", "lookup"}
         /\ p = ProcId(ctl.script, ctl.attempt))
    /\ procs' = [procs EXCEPT ![p] = "killed"]
    /\ process_stats' = [process_stats EXCEPT !.total_failed = @ + 1,
                                              !.current_running = @ - 1]
    /\ UNCHANGED <<processes, ctl, pipeline>>
    /\ UNCHANGED <<tableVars, botVars, restVars>>

\* The main thread enters run_script_with_enhanced_retry for one script.
PmInit ==
    /\ TableStart
    /\ BotStart
    /\ ManagerStart
    /\ \E script \in DOMAIN STEPS :
          ctl = [pc |-> "start", script |-> script, attempt |-> 0,
                 result |-> FALSE]
    /\ pipeline = PipelineIdle
    /\ RestStart

\* The main thread, the subprocesses and the monitoring thread.
PmNext ==
    \/ \E popen_ok \in BOOLEAN : start_process(popen_ok)
    \/ WaitCheck
    \/ WaitLookup
    \/ WaitPoll
    \/ WaitTimeout
    \/ \E p \in ProcIds, code \in {0, 1} : ProcessExit(p, code)
    \/ \E p \in ProcIds : MonitorFinished(p)
    \/ \E p \in ProcIds : MonitorTimeout(p)

PmSpec == PmInit /\ [][PmNext]_vars

\* The processes started so far.
Started == {p \in ProcIds : procs[p] # "none"}

\* C35: run_script_with_enhanced_retry starts at most MAX_RETRY_ATTEMPTS
\* processes, starts none after one of its processes has exited with code
\* 0, returns True when a process exited with code 0, returns False only
\* when every process it started exited non-zero, and always returns.
C35_RetryResult ==
    /\ Cardinality(Started) <= MAX_RETRY_ATTEMPTS
    /\ \A p \in ProcIds, q \in ProcIds :
          (procs[p] = "exit0" /\ p < q) => procs[q] = "none"
    /\ ctl.pc # "raised"
    /\ ctl.pc = "returned" =>
          IF ctl.result
          THEN \E p \in Started : procs[p] = "exit0"
          ELSE \A p \in Started : procs[p] \in {"exit1", "killed"}

\* C36: the processes counted as completed or failed are processes that
\* have ended, each counted once; current_running is never negative and is
\* the number of started processes not yet counted.
C36_ProcessAccounting ==
    /\ process_stats.total_started = Cardinality(Started)
    /\ process_stats.total_completed + process_stats.total_failed
          <= Cardinality({p \in Started : procs[p] \in Ended})
    /\ process_stats.current_running >= 0
    /\ process_stats.current_running
          = process_stats.total_started
               - (process_stats.total_completed + process_stats.total_failed)

\* ------------------------------------------------------------------------
\* controller_api.py: process_keyword_enhanced for one keyword
\* ------------------------------------------------------------------------
\* The call of run_script_with_enhanced_retry for a step's script.
CtlStart(script) ==
    [pc |-> "start", script |-> script, attempt |-> 0, result |-> FALSE]

\* run_script_with_enhanced_retry has returned: on True the next step or
\* the upload follows, on False process_keyword_enhanced returns False.
StepReturn ==
    /\ pipeline.pc = "steps"
    /\ ctl.pc = "returned"
    /\ IF ctl.result
       THEN /\ pipeline' =
                  [pipeline EXCEPT
                     !.succeeded = @ \cup {ctl.script},
                     !.pc = IF ctl.script < Len(STEPS) THEN "steps"
                            ELSE "upload"]
            /\ ctl' = IF ctl.script < Len(STEPS)
                      THEN CtlStart(ctl.script + 1)
                      ELSE CtlIdle
       ELSE /\ pipeline' = [pipeline EXCEPT !.pc = "returned",
                                            !.result = FALSE]
            /\ ctl' = CtlIdle
    /\ UNCHANGED <<procs, processes, process_stats>>
    /\ UNCHANGED <<tableVars, botVars, restVars>>

\* The KeyError of wait_for_process leaves run_script_with_enhanced_retry
\* and process_keyword_enhanced, which catch nothing.
StepRaise ==
    /\ pipeline.pc = "steps"
    /\ ctl.pc = "raised"
    /\ pipeline' = [pipeline EXCEPT !.pc = "raised"]
    /\ ctl' = CtlIdle
    /\ UNCHANGED <<procs, processes, process_stats>>
    /\ UNCHANGED <<tableVars, botVars, restVars>>

\* send_data_from_csv_enhanced: the rows of the CSV go to upload_data as a
\* batch; it returns True when the request was accepted.
SendData(items, delivered) ==
    /\ pipeline.pc = "upload"
    /\ BatchIds(items) \cap LockedRows = {}
    /\ IF delivered
       THEN /\ book_data' = UploadBatch(book_data, items, now)
            /\ grants' = ZeroGrants
            /\ cache' = NoCache
            /\ pipeline' = [pipeline EXCEPT !.pc = "mark",
                                            !.uploaded = TRUE]
       ELSE /\ UNCHANGED <<book_data, grants, cache>>
            /\ pipeline' = [pipeline EXCEPT !.pc = "returned",
                                            !.result = FALSE]
    /\ UNCHANGED <<now, wpc, claimTx, held, upc, uploadTx, uheld, resetTx>>
    /\ UNCHANGED <<attempt, loopVars, reply, notify>>
    /\ UNCHANGED <<procs, processes, process_stats, ctl>>
    /\ UNCHANGED <<botVars, restVars>>

\* mark_keyword_done_enhanced: the row of the keyword gets status done, or
\* the file is missing, has no such row or cannot be written.
MarkKeywordDone(marked) ==
    /\ pipeline.pc = "mark"
    /\ pipeline' = [pipeline EXCEPT !.pc = "returned", !.done = marked,
                                    !.result = marked]
    /\ UNCHANGED <<procs, processes, process_stats, ctl>>
    /\ UNCHANGED <<tableVars, botVars, restVars>>

\* The main thread enters process_keyword_enhanced for a keyword that is
\* not done and starts the first step.
PipelineInit ==
    /\ TableStart
    /\ BotStart
    /\ ManagerStart
    /\ ctl = CtlStart(1)
    /\ pipeline = [PipelineIdle EXCEPT !.pc = "steps"]
    /\ RestStart

\* The CSV the steps have written for the keyword: one row.
CsvBatches == {<<IngestPayload(i, s)>> : i \in Items, s \in IngestStatuses}

\* The main thread, the subprocesses and the monitoring thread while every
\* script ends within PROCESS_TIMEOUT, so that neither wait_for_process nor
\* the monitoring thread runs into its timeout.
PipelineNext ==
    \/ \E popen_ok \in BOOLEAN : start_process(popen_ok)
    \/ WaitCheck
    \/ WaitLookup
    \/ WaitPoll
    \/ \E p \in ProcIds, code \in {0, 1} : ProcessExit(p, code)
    \/ \E p \in ProcIds : MonitorFinished(p)
    \/ StepReturn
    \/ StepRaise
    \/ \E items \in CsvBatches, delivered \in BOOLEAN :
          SendData(items, delivered)
    \/ \E marked \in BOOLEAN : MarkKeywordDone(marked)

PipelineSpec == PipelineInit /\ [][PipelineNext]_vars

\* The step whose script process p runs.
StepOf(p) == ((p - 1) \div MAX_RETRY_ATTEMPTS) + 1

AllSteps == DOMAIN STEPS

\* C37: a step's script is started only after every earlier step succeeded,
\* a step counts as succeeded only when one of its processes exited with
\* code 0, the upload is made only after all three steps, the keyword is
\* marked done only after all steps and the upload succeeded, and
\* process_keyword_enhanced returns True exactly when the keyword was
\* marked and returns False, raising nothing, otherwise.
C37_PipelineOrder ==
    /\ \A p \in Started : \A j \in 1..(StepOf(p) - 1) :
          j \in pipeline.succeeded
    /\ \A j \in pipeline.succeeded :
          \E p \in Started : StepOf(p) = j /\ procs[p] = "exit0"
    /\ pipeline.pc \in {"upload", "mark"} => pipeline.succeeded = AllSteps
    /\ pipeline.uploaded => pipeline.succeeded = AllSteps
    /\ pipeline.done => pipeline.uploaded
    /\ pipeline.pc = "returned" => (pipeline.result <=> pipeline.done)
    /\ pipeline.pc # "raised"

\* ------------------------------------------------------------------------
\* controller_api.py: exponential_backoff
\* ------------------------------------------------------------------------
\* Mutant of exponential_backoff: the delay is not capped.
exponential_backoff_uncapped(n, base_delay) == base_delay * (2 ^ n)

\* return min(base_delay * (2 ** attempt), 300)
exponential_backoff(n, base_delay) == Min(base_delay * (2 ^ n), MAX_BACKOFF)

\* A retry loop starts with some base_delay.
BackoffInit ==
    /\ TableStart
    /\ BotStart
    /\ PmStart
    /\ BookmarkStart
    /\ \E base_delay \in 1..MaxBaseDelay :
          backoff = [NoBackoff EXCEPT !.base_delay = base_delay]

\* The loop asks for the delay of its attempt and goes to the next one.
BackoffStep ==
    /\ backoff.attempt <= MaxBackoffAttempt
    /\ backoff' =
          [backoff EXCEPT
             !.delay = exponential_backoff(backoff.attempt,
                                           backoff.base_delay),
             !.last = backoff.delay,
             !.attempt = @ + 1]
    /\ UNCHANGED <<tableVars, botVars, pmVars, bookmarkVars>>

BackoffNext == BackoffStep

BackoffSpec == BackoffInit /\ [][BackoffNext]_vars

\* base doubled n times
RECURSIVE Doubled(_, _)
Doubled(base, n) == IF n = 0 THEN base ELSE 2 * Doubled(base, n - 1)

\* C38: the delay for an attempt is base_delay doubled attempt times, or
\* 300 where that is more; it is never above 300 and never below the delay
\* of the attempt before.
C38_BackoffBound ==
    backoff.attempt > 0 =>
       /\ backoff.delay
             = (IF Doubled(backoff.base_delay, backoff.attempt - 1) < 300
                THEN Doubled(backoff.base_delay, backoff.attempt - 1)
                ELSE 300)
       /\ backoff.delay <= 300
       /\ backoff.last <= backoff.delay

\* With the default base_delay the delay has just reached the cap, the
\* delay before it having been below the cap.
C38_Witness ==
    /\ backoff.base_delay = RETRY_DELAY_BASE
    /\ backoff.delay = MAX_BACKOFF
    /\ backoff.last > 0
    /\ backoff.last < MAX_BACKOFF

\* ------------------------------------------------------------------------
\* flask_api_receiver.py: POST /bookmark on bookmark_db.json
\* ------------------------------------------------------------------------
\* The user_id values tried: two users and the empty string.
UserIds == Users \cup {""}

\* valid_books = BookData.query.filter(BookData.id.in_(book_ids)).all()
ValidBookIds(store, book_ids) == {i \in book_ids : store[i].exists}

\* POST /bookmark up to load_bookmarks(): a request with a bad user_id or
\* no book_ids is answered 400, else the file is read under bookmark_lock.
BookmarkLoad(r, user_id, book_ids) ==
    /\ breq[r].pc = "idle"
    /\ breq' = IF user_id = "" \/ Len(user_id) > 20 \/ book_ids = {}
               THEN breq
               ELSE [breq EXCEPT ![r] =
                       [pc |-> "loaded", user_id |-> user_id,
                        book_ids |-> book_ids, bookmarks |-> bookmark_db]]
    /\ UNCHANGED <<bookmark_db, bookmarked>>
    /\ UNCHANGED <<tableVars, botVars, pmVars, backoff>>

\* POST /bookmark from the query for the valid ids to the answer: the
\* user's entry of the dict read before is extended and save_bookmarks
\* writes the whole dict under bookmark_lock; when the write raises the
\* answer is 500.
BookmarkSave(r, written) ==
    /\ breq[r].pc = "loaded"
    /\ LET user_id == breq[r].user_id
           valid_book_ids == ValidBookIds(book_data, breq[r].book_ids)
           updated_bookmarks == breq[r].bookmarks[user_id]
                                   \cup valid_book_ids
       IN  IF written
           THEN /\ bookmark_db' =
                      [breq[r].bookmarks EXCEPT ![user_id] = updated_bookmarks]
                /\ bookmarked' =
                      [bookmarked EXCEPT ![user_id] = @ \cup valid_book_ids]
           ELSE UNCHANGED <<bookmark_db, bookmarked>>
    /\ breq' = [breq EXCEPT ![r] = NoRequest]
    /\ UNCHANGED <<tableVars, botVars, pmVars, backoff>>

\* Books are ingested and bookmark requests are served by two threads.
BookmarkNext ==
    \/ \E i \in Items, s \in IngestStatuses : Ingest(i, s)
    \/ \E r \in Requests, user_id \in UserIds, book_ids \in SUBSET Items :
          BookmarkLoad(r, user_id, book_ids)
    \/ \E r \in Requests, written \in BOOLEAN : BookmarkSave(r, written)

BookmarkSpec == Init /\ [][BookmarkNext]_vars

\* C39: once the POST /bookmark requests in flight have been answered, the
\* file holds for every user all valid book ids of the requests that were
\* answered with status ok.
C39_NoLostBookmarks ==
    (\A r \in Requests : breq[r].pc = "idle") =>
       \A u \in Users : bookmarked[u] \subseteq bookmark_db[u]

====
